---------------------------- MODULE Spec2Model ----------------------------
(***************************************************************************)
(* A model of the NES emulator core: the 6502 CPU run loop and its         *)
(* instruction handlers (src/src/cpu), the memory bus (src/src/mem/bus.rs) *)
(* and the PPU register interface and timing (src/src/ppu/mod.rs).         *)
(*                                                                         *)
(* Bytes are integers 0..255, words 0..65535.  The fixed-size arrays of    *)
(* the program (cpu_ram, vram, prg_rom, ...) are zero-initialised and are  *)
(* kept as the set of <<index, value>> pairs of their non-zero cells.      *)
(***************************************************************************)
EXTENDS Integers, Sequences, FiniteSets, TLC

VARIABLES
  cpu,       \* the CPU registers: pc, status, stack, reg_a, reg_x, reg_y
  cpu_ram,   \* Bus.cpu_ram
  rom,       \* Bus.rom: None, or the cartridge
  ppu,       \* Bus.ppu: None, or the PPU
  loc,       \* the position of the caller / of run_with_callback
  panicked,  \* a panic! was raised: the program has aborted
  last,      \* the last operation that was called and what it returned
  hist       \* history: counters of what has happened so far

vars == <<cpu, cpu_ram, rom, ppu, loc, panicked, last, hist>>

\* Option::None; Some(x) is x itself, a record
None == [none |-> TRUE]

(***************************************************************************)
(* Bit arithmetic on unsigned integers.                                    *)
(***************************************************************************)
U8 == 256

U16 == 65536

\* u32 values are handled in 16-bit limbs where they may pass 2^31
Limb == 65536

RECURSIVE BitAnd(_, _)
BitAnd(a, b) ==
  IF a = 0 \/ b = 0 THEN 0
  ELSE (a % 2) * (b % 2) + 2 * BitAnd(a \div 2, b \div 2)

RECURSIVE BitOr(_, _)
BitOr(a, b) ==
  IF a = 0 THEN b
  ELSE IF b = 0 THEN a
  ELSE (IF (a % 2) + (b % 2) > 0 THEN 1 ELSE 0) + 2 * BitOr(a \div 2, b \div 2)

RECURSIVE BitXor(_, _)
BitXor(a, b) ==
  IF a = 0 THEN b
  ELSE IF b = 0 THEN a
  ELSE ((a + b) % 2) + 2 * BitXor(a \div 2, b \div 2)

\* flags.contains(mask), for a one-bit or many-bit mask
Contains(bits, mask) == BitAnd(bits, mask) = mask

\* bitflags' set(mask, value)
FlagSet(bits, mask, value) ==
  IF value THEN BitOr(bits, mask) ELSE BitAnd(bits, BitXor(mask, 255))

(***************************************************************************)
(* Zero-initialised arrays, kept sparse.                                   *)
(***************************************************************************)
ArrGet(arr, i) ==
  IF \E p \in arr : p[1] = i THEN (CHOOSE p \in arr : p[1] = i)[2] ELSE 0

ArrSet(arr, i, v) ==
  {p \in arr : p[1] # i} \cup (IF v = 0 THEN {} ELSE {<<i, v>>})

(***************************************************************************)
(* Vec<u8> and fixed arrays with their lengths: an index at or past the    *)
(* length panics.                                                          *)
(***************************************************************************)
Vec(len, data) == [len |-> len, data |-> data]

VecGet(v, i) == ArrGet(v.data, i)

VecSet(v, i, x) == [v EXCEPT !.data = ArrSet(v.data, i, x)]

InBounds(v, i) == i >= 0 /\ i < v.len

(***************************************************************************)
(* Cartridge  (src/src/mem/rom.rs)                                         *)
(***************************************************************************)
Horizontal == "Horizontal"

Vertical == "Vertical"

FourScreen == "FourScreen"

PRG_ROM_PAGE_SIZE == 16384

CHR_ROM_PAGE_SIZE == 8192

\* Rom::from_pc
Rom_from_pc(pc) ==
  [ prg_rom |-> Vec(2 * PRG_ROM_PAGE_SIZE,
                    ArrSet(ArrSet({}, 32764, pc % 256), 32765, pc \div 256)),
    chr_rom |-> Vec(0, {}),
    mapper  |-> 0,
    screen_mirroring |-> Horizontal ]

\* Rom::from_prg, the PRG data given as a Vec
Rom_from_prg(prg_rom) ==
  [ prg_rom |-> prg_rom,
    chr_rom |-> Vec(CHR_ROM_PAGE_SIZE, {}),
    mapper  |-> 0,
    screen_mirroring |-> Horizontal ]

NES_TAG == <<78, 69, 83, 26>>

\* `v[a..b].to_vec()`, ret the Vec; a panic when the range is out of v
Slice(v, a, b) ==
  IF a > b \/ b > v.len THEN [ret |-> None, panic |-> TRUE]
  ELSE [ret |-> Vec(b - a, {<<p[1] - a, p[2]>> : p \in {q \in v.data : q[1] >= a /\ q[1] < b}}),
        panic |-> FALSE]

\* `raw[i]`, a panic when i is out of raw
Index(raw, i) ==
  IF InBounds(raw, i) THEN [ret |-> VecGet(raw, i), panic |-> FALSE]
  ELSE [ret |-> 0, panic |-> TRUE]

\* The results of Rom::new: Ok(rom), Err(message), and a panic
RomOk(r) == [ok |-> TRUE, rom |-> r, err |-> "", panic |-> FALSE]

RomErr(message) == [ok |-> FALSE, rom |-> None, err |-> message, panic |-> FALSE]

RomPanic == [ok |-> FALSE, rom |-> None, err |-> "", panic |-> TRUE]

\* The screen mirroring Rom::new takes from its two flags
screen_mirroring_of(four_screen_flag, vertical_mirroring_flag) ==
  IF four_screen_flag THEN FourScreen
  ELSE IF vertical_mirroring_flag THEN Vertical
  ELSE Horizontal

\* Rom::new from its size and control bytes on, the tag having matched
Rom_new_body(raw) ==
  IF Index(raw, 6).panic \/ Index(raw, 7).panic
  THEN RomPanic
  ELSE
    LET control_byte_1 == Index(raw, 6).ret
        control_byte_2 == Index(raw, 7).ret
        vertical_mirroring_flag == BitAnd(control_byte_2, 1) # 0
        trainer_flag == BitAnd(control_byte_2, 4) # 0
        four_screen_flag == BitAnd(control_byte_2, 8) # 0
        mapper == BitOr(BitAnd(control_byte_2, 240), control_byte_1 \div 16)
        prg_rom_size == VecGet(raw, 4) * PRG_ROM_PAGE_SIZE
        chr_rom_size == VecGet(raw, 5) * CHR_ROM_PAGE_SIZE
        prg_rom_start == 16 + (IF trainer_flag THEN 512 ELSE 0)
        chr_rom_start == prg_rom_start + prg_rom_size
        prg == Slice(raw, prg_rom_start, prg_rom_start + prg_rom_size)
        chr == Slice(raw, chr_rom_start, chr_rom_start + chr_rom_size)
    IN  IF BitAnd(control_byte_1, 12) # 0
        THEN RomErr("Only iNES 1.0 file format is supported")
        ELSE IF prg.panic \/ chr.panic THEN RomPanic
        ELSE RomOk([ prg_rom |-> prg.ret,
                     chr_rom |-> chr.ret,
                     mapper |-> mapper,
                     screen_mirroring |->
                       screen_mirroring_of(four_screen_flag, vertical_mirroring_flag) ])

\* Rom::new
Rom_new(raw) ==
  IF Slice(raw, 0, 4).panic THEN RomPanic
  ELSE IF [i \in 1..4 |-> VecGet(raw, i - 1)] # NES_TAG
  THEN RomErr("File is not in iNES file format")
  ELSE Rom_new_body(raw)

\* Rom::create_rom_data with the fill of each section kept in its first
\* byte only, the rest being zero: 0x99 for the trainer, 0xAA for PRG-ROM
\* and 0xBB for CHR-ROM
create_rom_data(prg_rom_pages, chr_rom_pages, control_byte_1, control_byte_2, with_trainer) ==
  LET trainer_size == IF with_trainer THEN 512 ELSE 0
      prg_rom_size == prg_rom_pages * PRG_ROM_PAGE_SIZE
      chr_rom_size == chr_rom_pages * CHR_ROM_PAGE_SIZE
      header == {<<0, 78>>, <<1, 69>>, <<2, 83>>, <<3, 26>>}
                  \cup {p \in {<<4, prg_rom_pages>>, <<5, chr_rom_pages>>,
                               <<6, control_byte_1>>, <<7, control_byte_2>>} : p[2] # 0}
  IN  Vec(16 + trainer_size + prg_rom_size + chr_rom_size,
          header
            \cup (IF with_trainer THEN {<<16, 153>>} ELSE {})
            \cup (IF prg_rom_size > 0 THEN {<<16 + trainer_size, 170>>} ELSE {})
            \cup (IF chr_rom_size > 0
                  THEN {<<16 + trainer_size + prg_rom_size, 187>>} ELSE {}))

\* The first len bytes of raw, with its first byte replaced by tag0
Truncated(raw, len, tag0) ==
  Vec(IF len < raw.len THEN len ELSE raw.len,
      ArrSet({p \in raw.data : p[1] < len}, 0, tag0))

(***************************************************************************)
(* PPU  (src/src/ppu/mod.rs)                                               *)
(***************************************************************************)
GENERATE_NMI == 128

VRAM_ADD_INCREMENT == 4

VBLANK == 128

CyclesPerScanline == 341

ScanlinesPerFrame == 262

VBlankScanline == 241

\* PPU::new
PPU_new(chr_rom, mirroring) ==
  [ chr_rom       |-> chr_rom,
    mirroring     |-> mirroring,
    vram          |-> Vec(2048, {}),
    oam_data      |-> Vec(256, {}),
    palette_table |-> Vec(32, {}),
    cycle         |-> 0,
    scanline      |-> 0,
    nmi_pending   |-> FALSE,
    ctrl          |-> 0,
    mask          |-> 0,
    status        |-> 0,
    oam_addr      |-> 0,
    scroll        |-> <<0, 0>>,
    ppu_addr      |-> <<0, 0>>,
    ppu_data_buf  |-> 0,
    w_reg         |-> FALSE ]

\* PPU::clear_nmi_flag
clear_nmi_flag(p) == [p EXCEPT !.nmi_pending = FALSE]

\* PPU::get_nmi_flag
get_nmi_flag(p) == Contains(p.ctrl, GENERATE_NMI) /\ p.nmi_pending

\* The `if self.scanline == 241 { ... }` of PPU::tick
tick_enter_vblank(p) ==
  IF p.scanline = VBlankScanline
  THEN [p EXCEPT !.status = FlagSet(p.status, VBLANK, TRUE),
                 !.nmi_pending = IF Contains(p.ctrl, GENERATE_NMI)
                                 THEN TRUE ELSE p.nmi_pending]
  ELSE p

\* tick_wrap_frame wrapping one scanline late (`>` for `>=`)
tick_wrap_frame_late(p) ==
  IF p.scanline > ScanlinesPerFrame
  THEN clear_nmi_flag([p EXCEPT !.scanline = 0,
                                !.status = FlagSet(p.status, VBLANK, FALSE)])
  ELSE p

\* The `if self.scanline >= 262 { ... }` of PPU::tick
tick_wrap_frame(p) ==
  IF p.scanline >= ScanlinesPerFrame
  THEN clear_nmi_flag([p EXCEPT !.scanline = 0,
                                !.status = FlagSet(p.status, VBLANK, FALSE)])
  ELSE p

\* One iteration of the `while self.cycle >= 341` loop of PPU::tick
tick_scanline(p) ==
  tick_wrap_frame(tick_enter_vblank(
    [p EXCEPT !.cycle = p.cycle - CyclesPerScanline,
              !.scanline = p.scanline + 1]))

\* k iterations of the loop body, split in halves to keep the evaluation
\* shallow (a frame is several hundred iterations)
RECURSIVE tick_iterate(_, _)
tick_iterate(p, k) ==
  IF k = 0 THEN p
  ELSE IF k = 1 THEN tick_scanline(p)
  ELSE LET half == tick_iterate(p, k \div 2)
       IN  IF half.cycle >= 0  \* the first half is evaluated before the second
           THEN tick_iterate(half, k - (k \div 2))
           ELSE half

\* tick_iterations for `while self.cycle > 341`
tick_iterations_gt(cycle) ==
  IF cycle > CyclesPerScanline THEN (cycle - 1) \div CyclesPerScanline ELSE 0

\* The number of times `while self.cycle >= 341 { self.cycle -= 341; ... }`
\* runs its body
tick_iterations(cycle) ==
  IF cycle >= CyclesPerScanline THEN cycle \div CyclesPerScanline ELSE 0

\* The `while self.cycle >= 341` loop of PPU::tick
tick_loop(p) == tick_iterate(p, tick_iterations(p.cycle))

\* PPU::tick for a count below 2^31: `self.cycle += count` cannot overflow,
\* cycle being below 341 between calls
tick(p, count) == tick_loop([p EXCEPT !.cycle = p.cycle + count])

\* PPU::tick for the count 2^32 - deficit.  `self.cycle += count` overflows
\* the u32 exactly when cycle >= deficit: a panic when overflow checks are
\* compiled in, and cycle - deficit when they are not.
tick_overflows(p, deficit) == p.cycle >= deficit

tick_wrapped(p, deficit) == tick_loop([p EXCEPT !.cycle = p.cycle - deficit])

\* PPU::write_to_ctrl
write_to_ctrl(p, value) ==
  LET generate_nmi_check == Contains(p.ctrl, GENERATE_NMI)
                            /\ ~Contains(value, GENERATE_NMI)
      p1 == [p EXCEPT !.ctrl = value]
  IN  IF generate_nmi_check /\ Contains(p1.status, VBLANK)
      THEN [p1 EXCEPT !.nmi_pending = TRUE]
      ELSE p1

\* read_status clearing VBlank on read, as the hardware does
read_status_clears_vblank(p) ==
  [ppu |-> [p EXCEPT !.w_reg = FALSE, !.status = FlagSet(p.status, VBLANK, FALSE)],
   ret |-> p.status]

\* PPU::read_status: the new PPU and the byte returned
read_status(p) == [ppu |-> [p EXCEPT !.w_reg = FALSE], ret |-> p.status]

\* PPUADDRESS::get on the pair (high byte, low byte)
PPUADDRESS_get(a) == (a[1] * 256) + a[2]

\* PPUADDRESS::set
PPUADDRESS_set(data) == <<(data \div 256) % 256, data % 256>>

\* PPUADDRESS_mirror without the mirroring down
PPUADDRESS_mirror_none(a) == a

\* The `if self.get() > 0x3fff { self.set(self.get() & 0x3fff) }` closing
\* PPUADDRESS::update and PPUADDRESS::increment
PPUADDRESS_mirror(a) ==
  IF PPUADDRESS_get(a) > 16383
  THEN PPUADDRESS_set(BitAnd(PPUADDRESS_get(a), 16383))
  ELSE a

\* PPUADDRESS::update: the new pair; the caller's w flag is toggled
PPUADDRESS_update(a, data, w_flag) ==
  PPUADDRESS_mirror(IF w_flag THEN <<a[1], data>> ELSE <<data, a[2]>>)

\* PPUADDRESS::increment
PPUADDRESS_increment(a, inc) ==
  LET overflow == a[2] + inc >= U8
      lo == (a[2] + inc) % U8
      hi == IF overflow THEN (a[1] + 1) % U8 ELSE a[1]
  IN  PPUADDRESS_mirror(<<hi, lo>>)

\* PPUCTRL::vram_addr_increment
vram_addr_increment(ctrl) == IF ~Contains(ctrl, VRAM_ADD_INCREMENT) THEN 1 ELSE 32

\* PPU::increment_vram_addr
increment_vram_addr(p) ==
  [p EXCEPT !.ppu_addr = PPUADDRESS_increment(p.ppu_addr, vram_addr_increment(p.ctrl))]

\* PPU::write_to_ppu_addr
write_to_ppu_addr(p, value) ==
  [p EXCEPT !.ppu_addr = PPUADDRESS_update(p.ppu_addr, value, p.w_reg),
            !.w_reg = ~p.w_reg]

\* PPUSCROLL::update: the new pair; the caller's w flag is toggled
PPUSCROLL_update(a, data, w_flag) ==
  IF w_flag THEN <<a[1], data>> ELSE <<data, a[2]>>

\* write_to_scroll keeping a latch of its own: the shared w is left alone
write_to_scroll_own_latch(p, value) ==
  [p EXCEPT !.scroll = PPUSCROLL_update(p.scroll, value, FALSE)]

\* PPU::write_to_scroll
write_to_scroll(p, value) ==
  [p EXCEPT !.scroll = PPUSCROLL_update(p.scroll, value, p.w_reg),
            !.w_reg = ~p.w_reg]

\* PPU::write_to_oam_data
write_to_oam_data(p, value) ==
  [p EXCEPT !.oam_addr = (p.oam_addr + 1) % U8,
            !.oam_data = VecSet(p.oam_data, p.oam_addr, value)]

\* mirror_vram_addr with the two mirroring arrangements exchanged
mirror_vram_addr_exchanged(p, addr) ==
  LET vram_index == BitAnd(addr, 12287) - 8192
      name_table == vram_index \div 1024
  IN  IF p.mirroring = Horizontal /\ name_table \in {2, 3} THEN vram_index - 2048
      ELSE IF p.mirroring = Vertical /\ name_table \in {1, 2} THEN vram_index - 1024
      ELSE IF p.mirroring = Vertical /\ name_table = 3 THEN vram_index - 2048
      ELSE vram_index

\* PPU::mirror_vram_addr
mirror_vram_addr(p, addr) ==
  LET mirrored_vram == BitAnd(addr, 12287)   \* 0b10111111111111
      vram_index == mirrored_vram - 8192
      name_table == vram_index \div 1024
  IN  IF p.mirroring = Vertical /\ name_table \in {2, 3} THEN vram_index - 2048
      ELSE IF p.mirroring = Horizontal /\ name_table \in {1, 2} THEN vram_index - 1024
      ELSE IF p.mirroring = Horizontal /\ name_table = 3 THEN vram_index - 2048
      ELSE vram_index

\* The outcome of a call that may panic: the object after the call, the
\* value returned, and whether the call panicked instead of returning
Returns(obj, ret) == [obj |-> obj, ret |-> ret, panic |-> FALSE]

Panics(obj) == [obj |-> obj, ret |-> 0, panic |-> TRUE]

\* PPU::write_to_data
write_to_data(p, value) ==
  LET addr == PPUADDRESS_get(p.ppu_addr)
      p1 == increment_vram_addr(p)
  IN  IF addr <= 8191 THEN Returns(p1, 0)
      ELSE IF addr <= 12287
      THEN LET vram_addr == mirror_vram_addr(p1, addr)
           IN  IF InBounds(p1.vram, vram_addr)
               THEN Returns([p1 EXCEPT !.vram = VecSet(p1.vram, vram_addr, value)], 0)
               ELSE Panics(p1)
      ELSE IF addr <= 16127 THEN Panics(p1)
      ELSE IF addr <= 16383
      THEN LET palette_index == (addr - 16128) % 32
           IN  Returns([p1 EXCEPT !.palette_table =
                                     VecSet(p1.palette_table, palette_index, value)], 0)
      ELSE Panics(p1)

\* PPU::read_data
read_data(p) ==
  LET addr == PPUADDRESS_get(p.ppu_addr)
      p1 == increment_vram_addr(p)
  IN  IF addr <= 8191
      THEN IF InBounds(p1.chr_rom, addr)
           THEN Returns([p1 EXCEPT !.ppu_data_buf = VecGet(p1.chr_rom, addr)],
                        p1.ppu_data_buf)
           ELSE Panics(p1)
      ELSE IF addr <= 12287
      THEN LET vram_addr == mirror_vram_addr(p1, addr)
           IN  IF InBounds(p1.vram, vram_addr)
               THEN Returns([p1 EXCEPT !.ppu_data_buf = VecGet(p1.vram, vram_addr)],
                            p1.ppu_data_buf)
               ELSE Panics(p1)
      ELSE IF addr <= 16127 THEN Panics(p1)
      ELSE IF addr <= 16383
      THEN Returns(p1, VecGet(p1.palette_table, (addr - 16128) % 32))
      ELSE Panics(p1)

(***************************************************************************)
(* Bus: tick and poll_nmi_status  (src/src/mem/bus.rs)                     *)
(***************************************************************************)
\* `count * 3` of Bus::tick overflows the u32
bus_tick_overflows(count) ==
  LET lo == (count % Limb) * 3
      hi == ((count \div Limb) * 3) + (lo \div Limb)
  IN  hi >= Limb

\* The PPU cycles Bus::tick hands to PPU::tick: count * 3 modulo 2^32
bus_tick_cycles(count) ==
  LET lo == (count % Limb) * 3
      hi == ((count \div Limb) * 3) + (lo \div Limb)
  IN  ((hi % Limb) * Limb) + (lo % Limb)

\* Bus::tick on the bus's PPU (None: nothing to tick)
bus_tick(p, count) == IF p = None THEN p ELSE tick(p, bus_tick_cycles(count))

\* poll_nmi_status without the clear_nmi_flag call
poll_nmi_status_keeps_flag(p) ==
  IF p # None /\ get_nmi_flag(p)
  THEN [ppu |-> p, ret |-> TRUE]
  ELSE [ppu |-> p, ret |-> FALSE]

\* Bus::poll_nmi_status: the new PPU and the boolean returned
poll_nmi_status(p) ==
  IF p # None /\ get_nmi_flag(p)
  THEN [ppu |-> clear_nmi_flag(p), ret |-> TRUE]
  ELSE [ppu |-> p, ret |-> FALSE]

(***************************************************************************)
(* Bus: the CPU memory map  (src/src/mem/bus.rs)                           *)
(***************************************************************************)
RAM_END == 8191

PPU_START == 8192

PPU_END == 16383

PRG_START == 32768

\* Bus::new
Bus_new == [cpu_ram |-> Vec(2048, {}), rom |-> None, ppu |-> None]

\* Bus::insert_rom
insert_rom(bus, r) ==
  [bus EXCEPT !.rom = r, !.ppu = PPU_new(r.chr_rom, r.screen_mirroring)]

\* The register a PPU-range address selects: addr & 0b00100000_00000111
ppu_register(addr) == BitAnd(addr, 8199)

\* read_prg_rom without the mirroring of a 16 KiB image
read_prg_rom_unmirrored(bus, addr) ==
  IF bus.rom = None THEN Panics(bus)
  ELSE IF InBounds(bus.rom.prg_rom, addr - 32768)
  THEN Returns(bus, VecGet(bus.rom.prg_rom, addr - 32768))
  ELSE Panics(bus)

\* Bus::read_prg_rom
read_prg_rom(bus, addr) ==
  IF bus.rom = None THEN Panics(bus)
  ELSE LET a0 == addr - 32768
           a1 == IF bus.rom.prg_rom.len = 16384 /\ a0 >= 16384 THEN a0 % 16384 ELSE a0
       IN  IF InBounds(bus.rom.prg_rom, a1)
           THEN Returns(bus, VecGet(bus.rom.prg_rom, a1))
           ELSE Panics(bus)

\* The RAM cell an address of $0000-$1FFF selects: addr & 0b111_1111_1111
ram_cell(addr) == BitAnd(addr, 2047)

\* ram_write storing at the address itself: only $0000-$07FF is stored
ram_write_unmirrored(bus, addr, data) ==
  IF InBounds(bus.cpu_ram, addr)
  THEN Returns([bus EXCEPT !.cpu_ram = VecSet(bus.cpu_ram, addr, data)], 0)
  ELSE Panics(bus)

\* The RAM arm of Bus::mem_write_u8
ram_write(bus, addr, data) ==
  Returns([bus EXCEPT !.cpu_ram = VecSet(bus.cpu_ram, ram_cell(addr), data)], 0)

\* mem_write_u8 ignoring a write to cartridge space
rom_write_ignored(bus, addr, data) == Returns(bus, 0)

\* The PRG arm of Bus::mem_write_u8
rom_write(bus, addr, data) == Panics(bus)

\* Bus::mem_read_u8
Bus_mem_read_u8(bus, addr) ==
  IF addr <= RAM_END
  THEN Returns(bus, VecGet(bus.cpu_ram, ram_cell(addr)))
  ELSE IF addr >= PPU_START /\ addr <= PPU_END
  THEN IF bus.ppu = None THEN Panics(bus)
       ELSE IF ppu_register(addr) \in {8192, 8193, 8195, 8197, 8198, 16404}
       THEN Panics(bus)
       ELSE IF ppu_register(addr) = 8199
       THEN LET r == read_data(bus.ppu)
            IN  [obj |-> [bus EXCEPT !.ppu = r.obj], ret |-> r.ret, panic |-> r.panic]
       ELSE Panics(bus)
  ELSE IF addr >= PRG_START THEN read_prg_rom(bus, addr)
  ELSE Returns(bus, 0)

\* Bus::mem_write_u8
Bus_mem_write_u8(bus, addr, data) ==
  IF addr <= RAM_END
  THEN ram_write(bus, addr, data)
  ELSE IF addr >= PPU_START /\ addr <= PPU_END
  THEN IF bus.ppu = None THEN Panics(bus)
       ELSE IF ppu_register(addr) = 8192
       THEN Returns([bus EXCEPT !.ppu = write_to_ctrl(bus.ppu, data)], 0)
       ELSE IF ppu_register(addr) = 8198
       THEN Returns([bus EXCEPT !.ppu = write_to_ppu_addr(bus.ppu, data)], 0)
       ELSE IF ppu_register(addr) = 8199
       THEN LET r == write_to_data(bus.ppu, data)
            IN  [obj |-> [bus EXCEPT !.ppu = r.obj], ret |-> 0, panic |-> r.panic]
       ELSE Panics(bus)
  ELSE IF addr >= PRG_START THEN rom_write(bus, addr, data)
  ELSE Returns(bus, 0)

(***************************************************************************)
(* CPU  (src/src/cpu/mod.rs)                                               *)
(*                                                                         *)
(* A machine is the CPU registers, the bus the CPU owns, whether a panic   *)
(* has ended the call in progress, the value the last primitive returned,  *)
(* and whether the build checks integer overflow.  Every primitive passes  *)
(* a panicked machine through untouched.                                   *)
(***************************************************************************)
INIT_STACK_POINTER == 255

PC_START_ADDRESS == 65532

Carry == 1

Zero == 2

InterruptDisable == 4

Decimal == 8

Break == 16

Overflow == 64

Negative == 128

\* utils::set_bit
set_bit(byte, mask, value) ==
  IF value THEN BitOr(byte, mask) ELSE BitAnd(byte, BitXor(mask, 255))

Machine(c, bus, checks) ==
  [cpu |-> c, bus |-> bus, panic |-> FALSE, ret |-> 0, checks |-> checks]

Panic(m) == [m EXCEPT !.panic = TRUE]

\* CPU::new without its bus
CPU_new ==
  [pc |-> 0, status |-> 36, stack |-> INIT_STACK_POINTER,
   reg_a |-> 0, reg_x |-> 0, reg_y |-> 0]

\* F applied to the value of x, x being evaluated once, before F
Bind(x, F(_)) == CHOOSE r \in {F(v) : v \in {x}} : TRUE

\* `self.bus.mem_read_u8(addr)`
bus_read(m, addr) ==
  IF m.panic THEN m
  ELSE Bind(Bus_mem_read_u8(m.bus, addr), LAMBDA r :
         IF r.panic THEN Panic([m EXCEPT !.bus = r.obj])
         ELSE [m EXCEPT !.bus = r.obj, !.ret = r.ret])

\* `self.bus.mem_write_u8(addr, data)`
bus_write(m, addr, data) ==
  IF m.panic THEN m
  ELSE Bind(Bus_mem_write_u8(m.bus, addr, data), LAMBDA r :
         IF r.panic THEN Panic([m EXCEPT !.bus = r.obj])
         ELSE [m EXCEPT !.bus = r.obj, !.ret = 0])

\* A method of the CPU called by name on the machine m; the methods are
\* listed where Call is defined, after the last of them
RECURSIVE Call(_, _, _)

\* <CPU as Memory>::mem_read_u8
CPU_mem_read_u8(m, addr) == Call(m, "mem_read_u8", <<addr>>)

\* <CPU as Memory>::mem_write_u8
CPU_mem_write_u8(m, addr, data) == Call(m, "mem_write_u8", <<addr, data>>)

\* Memory::mem_read_u16; `addr + 1` overflows at 0xFFFF
mem_read_u16(m, addr) ==
  Bind(CPU_mem_read_u8(m, addr), LAMBDA lo :
    IF lo.panic THEN lo
    ELSE IF addr + 1 >= U16 /\ lo.checks THEN Panic(lo)
    ELSE Bind(CPU_mem_read_u8(lo, (addr + 1) % U16), LAMBDA hi :
           IF hi.panic THEN hi ELSE [hi EXCEPT !.ret = (hi.ret * 256) + lo.ret]))

\* Memory::mem_write_u16; `addr + 1` overflows at 0xFFFF
mem_write_u16(m, addr, data) ==
  Bind(CPU_mem_write_u8(m, addr, data % 256), LAMBDA lo :
    IF lo.panic THEN lo
    ELSE IF addr + 1 >= U16 /\ lo.checks THEN Panic(lo)
    ELSE CPU_mem_write_u8(lo, (addr + 1) % U16, data \div 256))

\* `self.pc += n`
pc_add(m, n) ==
  IF m.panic THEN m
  ELSE IF m.cpu.pc + n >= U16 /\ m.checks THEN Panic(m)
  ELSE [m EXCEPT !.cpu.pc = (m.cpu.pc + n) % U16]

\* CPU::mem_read_pc_u8
mem_read_pc_u8(m) ==
  Bind(CPU_mem_read_u8(m, m.cpu.pc), LAMBDA r : pc_add(r, 1))

\* mem_read_pc_u16 written so that it advances pc by one
mem_read_pc_u16_advancing_one(m) ==
  Bind(mem_read_u16(m, m.cpu.pc), LAMBDA r : pc_add(r, 1))

\* CPU::mem_read_pc_u16
mem_read_pc_u16(m) ==
  Bind(mem_read_u16(m, m.cpu.pc), LAMBDA r : pc_add(r, 2))

\* zero_page_pointer with the high byte read from ptr + 1 unwrapped
zero_page_pointer_carrying(m, ptr) ==
  Bind(CPU_mem_read_u8(m, ptr), LAMBDA lo :
    Bind(CPU_mem_read_u8(lo, ptr + 1), LAMBDA hi :
      IF hi.panic THEN hi ELSE [hi EXCEPT !.ret = (hi.ret * 256) + lo.ret]))

\* The 16-bit pointer held in the zero page at ptr: low byte at ptr, high
\* byte at ptr + 1 wrapped to the zero page
zero_page_pointer(m, ptr) ==
  Bind(CPU_mem_read_u8(m, ptr), LAMBDA lo :
    Bind(CPU_mem_read_u8(lo, (ptr + 1) % U8), LAMBDA hi :
      IF hi.panic THEN hi ELSE [hi EXCEPT !.ret = (hi.ret * 256) + lo.ret]))

\* ret of a machine that has not panicked replaced by value
Ret(m, value) == IF m.panic THEN m ELSE [m EXCEPT !.ret = value]

\* CPU::get_address: the machine after the operand fetch, ret the address
get_address(m, mode) ==
  IF m.panic THEN m
  ELSE IF mode = "Immediate"
  THEN Bind(pc_add(m, 1), LAMBDA m1 :
         IF m1.panic THEN m1
         ELSE IF m1.cpu.pc = 0 /\ m1.checks THEN Panic(m1)
         ELSE [m1 EXCEPT !.ret = (m1.cpu.pc + U16 - 1) % U16])
  ELSE IF mode = "ZeroPage" THEN mem_read_pc_u8(m)
  ELSE IF mode = "ZeroPage_X"
  THEN Bind(mem_read_pc_u8(m), LAMBDA m1 : Ret(m1, (m1.ret + m1.cpu.reg_x) % U8))
  ELSE IF mode = "ZeroPage_Y"
  THEN Bind(mem_read_pc_u8(m), LAMBDA m1 : Ret(m1, (m1.ret + m1.cpu.reg_y) % U8))
  ELSE IF mode = "Absolute" THEN mem_read_pc_u16(m)
  ELSE IF mode = "Absolute_X"
  THEN Bind(mem_read_pc_u16(m), LAMBDA m1 : Ret(m1, (m1.ret + m1.cpu.reg_x) % U16))
  ELSE IF mode = "Absolute_Y"
  THEN Bind(mem_read_pc_u16(m), LAMBDA m1 : Ret(m1, (m1.ret + m1.cpu.reg_y) % U16))
  ELSE IF mode = "Indirect"
  THEN Bind(mem_read_pc_u16(m), LAMBDA p :
         Bind(CPU_mem_read_u8(p, p.ret), LAMBDA lo :
           Bind(CPU_mem_read_u8(lo, ((p.ret \div 256) * 256) + ((p.ret + 1) % U8)),
                LAMBDA hi : Ret(hi, (hi.ret * 256) + lo.ret))))
  ELSE IF mode = "Indirect_X"
  THEN Bind(mem_read_pc_u8(m), LAMBDA m1 :
         IF m1.panic THEN m1
         ELSE zero_page_pointer(m1, (m1.ret + m1.cpu.reg_x) % U8))
  ELSE IF mode = "Indirect_Y"
  THEN Bind(mem_read_pc_u8(m), LAMBDA m1 :
         IF m1.panic THEN m1
         ELSE Bind(zero_page_pointer(m1, m1.ret), LAMBDA d :
                Ret(d, (d.ret + d.cpu.reg_y) % U16)))
  ELSE Panic(m)

\* CPU::get_address_and_value: ret is the value; no caller uses the address
get_address_and_value(m, mode) ==
  Bind(get_address(m, mode), LAMBDA a : CPU_mem_read_u8(a, a.ret))

\* CPU::get_stack_address
get_stack_address(c) == 256 + c.stack

\* `self.stack = self.stack.wrapping_sub(1)`
stack_down(m) == IF m.panic THEN m ELSE [m EXCEPT !.cpu.stack = (m.cpu.stack + U8 - 1) % U8]

\* `self.stack = self.stack.wrapping_add(1)`
stack_up(m) == IF m.panic THEN m ELSE [m EXCEPT !.cpu.stack = (m.cpu.stack + 1) % U8]

\* CPU::stack_push_value_u8
stack_push_value_u8(m, value) ==
  Bind(CPU_mem_write_u8(m, get_stack_address(m.cpu), value), LAMBDA w : stack_down(w))

\* stack_pull_value_u8 written so that it reads before it moves the pointer
stack_pull_value_u8_read_first(m) ==
  Bind(CPU_mem_read_u8(m, get_stack_address(m.cpu)), LAMBDA r :
    Ret(stack_up(r), r.ret))

\* CPU::stack_pull_value_u8
stack_pull_value_u8(m) ==
  Bind(stack_up(m), LAMBDA u : CPU_mem_read_u8(u, get_stack_address(u.cpu)))

\* CPU::stack_push_value_u16
stack_push_value_u16(m, value) ==
  Bind(stack_push_value_u8(m, value \div 256), LAMBDA hi :
    stack_push_value_u8(hi, value % 256))

\* CPU::stack_pull_value_u16
stack_pull_value_u16(m) ==
  Bind(stack_pull_value_u8(m), LAMBDA lo :
    Bind(stack_pull_value_u8(lo), LAMBDA hi : Ret(hi, (hi.ret * 256) + lo.ret)))

\* CPU::get_flag
get_flag(c, flag) == BitAnd(c.status, flag) # 0

\* CPU::set_flag, on the status byte
set_flag(status, flag, value) ==
  IF value THEN BitOr(BitAnd(status, BitXor(flag, 255)), flag)
  ELSE BitAnd(status, BitXor(flag, 255))

\* The i8 offset of CPU::branch cast to u16
sign_extend(offset) == IF offset >= 128 THEN offset + 65280 ELSE offset

\* CPU::branch
branch(m, condition) ==
  Bind(mem_read_pc_u8(m), LAMBDA m1 :
    IF m1.panic \/ ~condition THEN m1
    ELSE [m1 EXCEPT !.cpu.pc = (m1.cpu.pc + sign_extend(m1.ret)) % U16])

\* CPU::update_zero_and_negative_flags, on the status byte
update_zero_and_negative_flags(status, result) ==
  set_bit(set_bit(status, Zero, result = 0), Negative, BitAnd(result, 128) # 0)

\* CPU::reset
reset(m) ==
  Bind(mem_read_u16([m EXCEPT !.cpu.reg_a = 0, !.cpu.reg_x = 0, !.cpu.reg_y = 0,
                              !.cpu.status = 36, !.cpu.stack = INIT_STACK_POINTER],
                    PC_START_ADDRESS),
       LAMBDA r : IF r.panic THEN r ELSE [r EXCEPT !.cpu.pc = r.ret])

\* The writes of CPU::load_at, from byte i of the program on
RECURSIVE load_bytes(_, _, _, _)
load_bytes(m, program, start_address, i) ==
  IF i > Len(program) THEN m
  ELSE Bind(CPU_mem_write_u8(m, start_address + (i - 1), program[i]), LAMBDA w :
         load_bytes(w, program, start_address, i + 1))

\* CPU::load_at
load_at(m, program, start_address) ==
  Bind(load_bytes(m, program, start_address, 1), LAMBDA w : reset(w))

\* CPU::load
load(m, program) ==
  load_at([m EXCEPT !.bus = insert_rom(m.bus, Rom_from_pc(0))], program, 0)

\* The loop condition of run_with_callback written so that it always holds
run_loop_condition_always(c) == TRUE

\* The loop condition of CPU::run_with_callback
run_loop_condition(c) == BitAnd(c.status, Break) = 0

(***************************************************************************)
(* Instruction handlers  (src/src/cpu/opcode/*.rs).  A handler is handed   *)
(* a machine that has not panicked.                                        *)
(***************************************************************************)
\* The machine with the Z and N flags updated from result, unless panicked
WithZN(m, result) ==
  IF m.panic THEN m
  ELSE [m EXCEPT !.cpu.status = update_zero_and_negative_flags(m.cpu.status, result)]

\* The machine with its status byte replaced, unless panicked
WithStatus(m, status) == IF m.panic THEN m ELSE [m EXCEPT !.cpu.status = status]

\* system_functions.rs
\* brk written as the interrupt sequence: pc and the status pushed, then the
\* Break bit set
brk_pushing(m, mode) ==
  Bind(stack_push_value_u16(m, m.cpu.pc), LAMBDA p :
    Bind(stack_push_value_u8(p, p.cpu.status), LAMBDA s :
      WithStatus(s, set_bit(s.cpu.status, Break, TRUE))))

brk(m, mode) == WithStatus(m, set_bit(m.cpu.status, Break, TRUE))

nop(m, mode) == m

\* rti written so that the pulled byte replaces the whole status
rti_status_whole(m, mode) ==
  Bind(stack_pull_value_u8(m), LAMBDA v :
    Bind(stack_pull_value_u16(WithStatus(v, v.ret)),
         LAMBDA a : IF a.panic THEN a ELSE [a EXCEPT !.cpu.pc = a.ret]))

rti(m, mode) ==
  Bind(stack_pull_value_u8(m), LAMBDA v :
    Bind(stack_pull_value_u16(
           WithStatus(v, BitOr(BitAnd(v.cpu.status, 48), BitAnd(v.ret, 207)))),
         LAMBDA a : IF a.panic THEN a ELSE [a EXCEPT !.cpu.pc = a.ret]))

\* stack_operations.rs
pha(m, mode) ==
  Bind(CPU_mem_write_u8(m, get_stack_address(m.cpu), m.cpu.reg_a), LAMBDA w :
    stack_down(w))

php(m, mode) ==
  Bind(CPU_mem_write_u8(m, get_stack_address(m.cpu), m.cpu.status), LAMBDA w :
    stack_down(w))

pla(m, mode) ==
  Bind(stack_up(m), LAMBDA u :
    Bind(CPU_mem_read_u8(u, get_stack_address(u.cpu)), LAMBDA r :
      IF r.panic THEN r ELSE WithZN([r EXCEPT !.cpu.reg_a = r.ret], r.ret)))

plp(m, mode) ==
  Bind(stack_up(m), LAMBDA u :
    Bind(CPU_mem_read_u8(u, get_stack_address(u.cpu)), LAMBDA r :
      WithStatus(r, r.ret)))

\* status_flag_changes.rs
clc(m, mode) == WithStatus(m, set_flag(m.cpu.status, Carry, FALSE))

cld(m, mode) == WithStatus(m, set_flag(m.cpu.status, Decimal, FALSE))

cli(m, mode) == WithStatus(m, set_flag(m.cpu.status, InterruptDisable, FALSE))

clv(m, mode) == WithStatus(m, set_flag(m.cpu.status, Overflow, FALSE))

sec(m, mode) == WithStatus(m, set_flag(m.cpu.status, Carry, TRUE))

sed(m, mode) == WithStatus(m, set_flag(m.cpu.status, Decimal, TRUE))

sei(m, mode) == WithStatus(m, set_flag(m.cpu.status, InterruptDisable, TRUE))

\* register_transfers.rs
tax(m, mode) == WithZN([m EXCEPT !.cpu.reg_x = m.cpu.reg_a], m.cpu.reg_a)

tay(m, mode) == WithZN([m EXCEPT !.cpu.reg_y = m.cpu.reg_a], m.cpu.reg_a)

tsx(m, mode) == WithZN([m EXCEPT !.cpu.reg_x = m.cpu.stack], m.cpu.stack)

txa(m, mode) == WithZN([m EXCEPT !.cpu.reg_a = m.cpu.reg_x], m.cpu.reg_x)

\* txs written as the other transfers are, with the flags of the byte moved
txs_with_flags(m, mode) == WithZN([m EXCEPT !.cpu.stack = m.cpu.reg_x], m.cpu.reg_x)

txs(m, mode) == [m EXCEPT !.cpu.stack = m.cpu.reg_x]

tya(m, mode) == WithZN([m EXCEPT !.cpu.reg_a = m.cpu.reg_y], m.cpu.reg_y)

\* branches.rs
bcs(m, mode) == branch(m, get_flag(m.cpu, Carry))

bcc(m, mode) == branch(m, ~get_flag(m.cpu, Carry))

beq(m, mode) == branch(m, get_flag(m.cpu, Zero))

bne(m, mode) == branch(m, ~get_flag(m.cpu, Zero))

bmi(m, mode) == branch(m, get_flag(m.cpu, Negative))

bpl(m, mode) == branch(m, ~get_flag(m.cpu, Negative))

bvs(m, mode) == branch(m, get_flag(m.cpu, Overflow))

bvc(m, mode) == branch(m, ~get_flag(m.cpu, Overflow))

\* jumps.rs
jmp(m, mode) ==
  Bind(get_address(m, mode), LAMBDA a :
    IF a.panic THEN a ELSE [a EXCEPT !.cpu.pc = a.ret])

jsr(m, mode) ==
  Bind(get_address(m, mode), LAMBDA a :
    IF a.panic THEN a
    ELSE Bind(stack_push_value_u16(a, (a.cpu.pc + U16 - 1) % U16), LAMBDA w :
           IF w.panic THEN w ELSE [w EXCEPT !.cpu.pc = a.ret]))

\* rts written without the increment of the pulled address
rts_without_increment(m, mode) ==
  Bind(stack_pull_value_u16(m), LAMBDA a :
    IF a.panic THEN a ELSE [a EXCEPT !.cpu.pc = a.ret])

rts(m, mode) ==
  Bind(stack_pull_value_u16(m), LAMBDA a :
    IF a.panic THEN a ELSE [a EXCEPT !.cpu.pc = (a.ret + 1) % U16])

\* load_store.rs
lda(m, mode) ==
  Bind(get_address_and_value(m, mode), LAMBDA v :
    IF v.panic THEN v ELSE WithZN([v EXCEPT !.cpu.reg_a = v.ret], v.ret))

ldx(m, mode) ==
  Bind(get_address_and_value(m, mode), LAMBDA v :
    IF v.panic THEN v ELSE WithZN([v EXCEPT !.cpu.reg_x = v.ret], v.ret))

ldy(m, mode) ==
  Bind(get_address_and_value(m, mode), LAMBDA v :
    IF v.panic THEN v ELSE WithZN([v EXCEPT !.cpu.reg_y = v.ret], v.ret))

sta(m, mode) ==
  Bind(get_address(m, mode), LAMBDA a : CPU_mem_write_u8(a, a.ret, a.cpu.reg_a))

stx(m, mode) ==
  Bind(get_address(m, mode), LAMBDA a : CPU_mem_write_u8(a, a.ret, a.cpu.reg_x))

sty(m, mode) ==
  Bind(get_address(m, mode), LAMBDA a : CPU_mem_write_u8(a, a.ret, a.cpu.reg_y))

\* logical.rs
and(m, mode) ==
  Bind(get_address_and_value(m, mode), LAMBDA v :
    IF v.panic THEN v
    ELSE WithZN([v EXCEPT !.cpu.reg_a = BitAnd(v.cpu.reg_a, v.ret)],
                BitAnd(v.cpu.reg_a, v.ret)))

eor(m, mode) ==
  Bind(get_address_and_value(m, mode), LAMBDA v :
    IF v.panic THEN v
    ELSE WithZN([v EXCEPT !.cpu.reg_a = BitXor(v.cpu.reg_a, v.ret)],
                BitXor(v.cpu.reg_a, v.ret)))

ora(m, mode) ==
  Bind(get_address_and_value(m, mode), LAMBDA v :
    IF v.panic THEN v
    ELSE WithZN([v EXCEPT !.cpu.reg_a = BitOr(v.cpu.reg_a, v.ret)],
                BitOr(v.cpu.reg_a, v.ret)))

\* The status byte left by bit for the accumulator a and the value read
bit_status(status, a, value) ==
  BitOr(BitOr(BitOr(BitAnd(status, BitXor(Zero + Overflow + Negative, 255)),
                    IF BitAnd(a, value) = 0 THEN Zero ELSE 0),
              IF BitAnd(value, 64) # 0 THEN Overflow ELSE 0),
        IF BitAnd(value, 128) # 0 THEN Negative ELSE 0)

bit(m, mode) ==
  Bind(get_address_and_value(m, mode), LAMBDA v :
    WithStatus(v, bit_status(v.cpu.status, v.cpu.reg_a, v.ret)))

\* arithmetic.rs: the status byte and the accumulator left by
\* cpu_addition_with_carry, before its update of Z and N
addition_result(a, value, carry_in) == (((a + value) % U8) + carry_in) % U8

\* addition_carry written without the carry of the second addition
addition_carry_of_first(a, value, carry_in) == a + value >= U8

addition_carry(a, value, carry_in) ==
  (a + value >= U8) \/ (((a + value) % U8) + carry_in >= U8)

addition_overflow(a, value, result) ==
  BitAnd(BitAnd(BitXor(value, result), BitXor(a, result)), 128) # 0

cpu_addition_with_carry(m, value) ==
  IF m.panic THEN m
  ELSE Bind(addition_result(m.cpu.reg_a, value, IF get_flag(m.cpu, Carry) THEN 1 ELSE 0),
            LAMBDA result :
         WithZN([m EXCEPT
                   !.cpu.reg_a = result,
                   !.cpu.status =
                     BitOr(BitOr(BitAnd(m.cpu.status, BitXor(Carry + Overflow, 255)),
                                 IF addition_carry(m.cpu.reg_a, value,
                                                   IF get_flag(m.cpu, Carry) THEN 1 ELSE 0)
                                 THEN Carry ELSE 0),
                           IF addition_overflow(m.cpu.reg_a, value, result)
                           THEN Overflow ELSE 0)],
                result))

adc(m, mode) ==
  Bind(get_address_and_value(m, mode), LAMBDA v : cpu_addition_with_carry(v, v.ret))

\* sbc written without the complement of the operand
sbc_uncomplemented(m, mode) ==
  Bind(get_address_and_value(m, mode), LAMBDA v : cpu_addition_with_carry(v, v.ret))

sbc(m, mode) ==
  Bind(get_address_and_value(m, mode), LAMBDA v :
    cpu_addition_with_carry(v, BitXor(v.ret, 255)))

\* compare written with Carry set only when the register is greater
compare_greater(status, reg, value) ==
  set_flag(set_flag(set_flag(status, Carry, reg > value), Zero, reg = value),
           Negative, BitAnd((reg + U8 - value) % U8, 128) # 0)

\* The three set_flag calls shared by cmp, cpx, cpy and dcp
compare(status, reg, value) ==
  set_flag(set_flag(set_flag(status, Carry, reg >= value), Zero, reg = value),
           Negative, BitAnd((reg + U8 - value) % U8, 128) # 0)

cmp(m, mode) ==
  Bind(get_address_and_value(m, mode), LAMBDA v :
    WithStatus(v, compare(v.cpu.status, v.cpu.reg_a, v.ret)))

cpx(m, mode) ==
  Bind(get_address_and_value(m, mode), LAMBDA v :
    WithStatus(v, compare(v.cpu.status, v.cpu.reg_x, v.ret)))

cpy(m, mode) ==
  Bind(get_address_and_value(m, mode), LAMBDA v :
    WithStatus(v, compare(v.cpu.status, v.cpu.reg_y, v.ret)))

\* shifts.rs: resolve_value_and_address, the write of the result to memory
\* or to the accumulator, then the flags
shift(m, mode, result_of(_, _), carry_of(_)) ==
  IF m.panic THEN m
  ELSE IF mode = "Accumulator"
  THEN Bind(result_of(m.cpu.reg_a, get_flag(m.cpu, Carry)), LAMBDA result :
         WithZN([m EXCEPT !.cpu.reg_a = result,
                          !.cpu.status = set_flag(m.cpu.status, Carry,
                                                  carry_of(m.cpu.reg_a))],
                result))
  ELSE Bind(get_address(m, mode), LAMBDA a :
         Bind(CPU_mem_read_u8(a, a.ret), LAMBDA v :
           IF v.panic THEN v
           ELSE Bind(CPU_mem_write_u8(v, a.ret, result_of(v.ret, get_flag(v.cpu, Carry))),
                     LAMBDA w :
                  WithZN(WithStatus(w, set_flag(w.cpu.status, Carry, carry_of(v.ret))),
                         result_of(v.ret, get_flag(v.cpu, Carry))))))

asl_result(value, carry) == (value * 2) % U8

lsr_result(value, carry) == value \div 2

rol_result(value, carry) == ((value * 2) % U8) + (IF carry THEN 1 ELSE 0)

ror_result(value, carry) == (value \div 2) + (IF carry THEN 128 ELSE 0)

bit7(value) == BitAnd(value, 128) # 0

bit0(value) == BitAnd(value, 1) # 0

asl(m, mode) == shift(m, mode, asl_result, bit7)

lsr(m, mode) == shift(m, mode, lsr_result, bit0)

rol(m, mode) == shift(m, mode, rol_result, bit7)

ror(m, mode) == shift(m, mode, ror_result, bit0)

\* The read at the resolved address and the write of result_of(value) back
\* to it, shared by inc, dec and rmw.rs; then with(w, value, result) for the
\* machine w after the write
read_modify_write(m, mode, result_of(_, _), with(_, _, _)) ==
  Bind(get_address(m, mode), LAMBDA a :
    Bind(CPU_mem_read_u8(a, a.ret), LAMBDA r :
      IF r.panic THEN r
      ELSE Bind(result_of(r.ret, get_flag(r.cpu, Carry)), LAMBDA result :
             Bind(CPU_mem_write_u8(r, a.ret, result), LAMBDA w :
               IF w.panic THEN w ELSE with(w, r.ret, result)))))

dec_result(value, carry) == (value + U8 - 1) % U8

inc_result(value, carry) == (value + 1) % U8

\* increment_decrements.rs
inc(m, mode) ==
  read_modify_write(m, mode, inc_result, LAMBDA w, value, result : WithZN(w, result))

\* dec written with the flags taken from the byte read
dec_flags_of_operand(m, mode) ==
  read_modify_write(m, mode, dec_result, LAMBDA w, value, result : WithZN(w, value))

dec(m, mode) ==
  read_modify_write(m, mode, dec_result, LAMBDA w, value, result : WithZN(w, result))

inx(m, mode) ==
  WithZN([m EXCEPT !.cpu.reg_x = (m.cpu.reg_x + 1) % U8], (m.cpu.reg_x + 1) % U8)

iny(m, mode) ==
  WithZN([m EXCEPT !.cpu.reg_y = (m.cpu.reg_y + 1) % U8], (m.cpu.reg_y + 1) % U8)

dex(m, mode) ==
  WithZN([m EXCEPT !.cpu.reg_x = (m.cpu.reg_x + U8 - 1) % U8], (m.cpu.reg_x + U8 - 1) % U8)

dey(m, mode) ==
  WithZN([m EXCEPT !.cpu.reg_y = (m.cpu.reg_y + U8 - 1) % U8], (m.cpu.reg_y + U8 - 1) % U8)

\* combined_ops.rs
alr(m, mode) == Bind(and(m, mode), LAMBDA a : lsr(a, "Accumulator"))

anc(m, mode) ==
  Bind(and(m, mode), LAMBDA a :
    WithStatus(a, set_flag(a.cpu.status, Carry, get_flag(a.cpu, Negative))))

\* arr_status with the roles of bits 5 and 6 exchanged
arr_status_bits_exchanged(status, and_result) ==
  set_flag(set_flag(status, Carry, BitAnd(and_result, 32) # 0),
           Overflow, BitAnd(and_result, 64) # 0 /\ BitAnd(and_result, 32) = 0)

\* The Carry and Overflow flags arr sets from bits 5 and 6 of the AND result
arr_status(status, and_result) ==
  set_flag(set_flag(status, Carry, BitAnd(and_result, 64) # 0),
           Overflow, BitAnd(and_result, 32) # 0 /\ BitAnd(and_result, 64) = 0)

arr(m, mode) ==
  Bind(and(m, mode), LAMBDA a :
    Bind(ror(a, "Accumulator"), LAMBDA r :
      WithStatus(r, arr_status(r.cpu.status, a.cpu.reg_a))))

axs(m, mode) ==
  Bind(get_address(m, mode), LAMBDA a :
    Bind(CPU_mem_read_u8(a, a.ret), LAMBDA r :
      IF r.panic THEN r
      ELSE WithZN([r EXCEPT
                     !.cpu.reg_x = (BitAnd(r.cpu.reg_a, r.cpu.reg_x) + U8 - r.ret) % U8,
                     !.cpu.status = set_flag(r.cpu.status, Carry,
                                             BitAnd(r.cpu.reg_a, r.cpu.reg_x) < r.ret)],
                  (BitAnd(r.cpu.reg_a, r.cpu.reg_x) + U8 - r.ret) % U8)))

lax(m, mode) ==
  Bind(get_address_and_value(m, mode), LAMBDA v :
    IF v.panic THEN v
    ELSE WithZN([v EXCEPT !.cpu.reg_a = v.ret, !.cpu.reg_x = v.ret], v.ret))

sax(m, mode) ==
  Bind(get_address(m, mode), LAMBDA a :
    CPU_mem_write_u8(a, a.ret, BitAnd(a.cpu.reg_a, a.cpu.reg_x)))

\* rmw.rs
dcp(m, mode) ==
  read_modify_write(m, mode, dec_result, LAMBDA w, value, result :
    WithStatus(w, compare(w.cpu.status, w.cpu.reg_a, result)))

isc(m, mode) ==
  read_modify_write(m, mode, inc_result, LAMBDA w, value, result :
    cpu_addition_with_carry(w, BitXor(result, 255)))

rla(m, mode) ==
  read_modify_write(m, mode, rol_result, LAMBDA w, value, result :
    WithZN([w EXCEPT !.cpu.reg_a = BitAnd(w.cpu.reg_a, result),
                     !.cpu.status = set_flag(w.cpu.status, Carry, bit7(value))],
           BitAnd(w.cpu.reg_a, result)))

rra(m, mode) ==
  read_modify_write(m, mode, ror_result, LAMBDA w, value, result :
    cpu_addition_with_carry(
      WithStatus(w, set_flag(w.cpu.status, Carry, bit0(value))), result))

slo(m, mode) ==
  read_modify_write(m, mode, asl_result, LAMBDA w, value, result :
    WithZN([w EXCEPT !.cpu.reg_a = BitOr(w.cpu.reg_a, result),
                     !.cpu.status = set_flag(w.cpu.status, Carry, bit7(value))],
           BitOr(w.cpu.reg_a, result)))

sre(m, mode) ==
  read_modify_write(m, mode, lsr_result, LAMBDA w, value, result :
    WithZN([w EXCEPT !.cpu.reg_a = BitXor(w.cpu.reg_a, result),
                     !.cpu.status = set_flag(w.cpu.status, Carry, bit0(value))],
           BitXor(w.cpu.reg_a, result)))

(***************************************************************************)
(* The instruction table  (src/src/cpu/opcode/opcode_table.rs); the entry  *)
(* of opcode c is OPCODE_TABLE[c + 1].                                     *)
(***************************************************************************)
OP(code, name, op, mode, bytes, cycles) ==
  [code |-> code, name |-> name, op |-> op, mode |-> mode, bytes |-> bytes,
   cycles |-> cycles]

OPCODE_TABLE ==
  <<
    OP(0, "BRK", "brk", "NoneAddressing", 1, 7),  \* 0x00
    OP(1, "ORA", "ora", "Indirect_X", 2, 6),  \* 0x01
    None,  \* 0x02
    OP(3, "*SLO", "slo", "Indirect_X", 2, 8),  \* 0x03
    OP(4, "*NOP", "nop", "ZeroPage", 2, 3),  \* 0x04
    OP(5, "ORA", "ora", "ZeroPage", 2, 3),  \* 0x05
    OP(6, "ASL", "asl", "ZeroPage", 2, 5),  \* 0x06
    OP(7, "*SLO", "slo", "ZeroPage", 2, 5),  \* 0x07
    OP(8, "PHP", "php", "NoneAddressing", 1, 3),  \* 0x08
    OP(9, "ORA", "ora", "Immediate", 2, 2),  \* 0x09
    OP(10, "ASL", "asl", "Accumulator", 1, 2),  \* 0x0A
    OP(11, "*ANC", "anc", "Immediate", 2, 2),  \* 0x0B
    OP(12, "*NOP", "nop", "Absolute", 3, 4),  \* 0x0C
    OP(13, "ORA", "ora", "Absolute", 3, 4),  \* 0x0D
    OP(14, "ASL", "asl", "Absolute", 3, 6),  \* 0x0E
    OP(15, "*SLO", "slo", "Absolute", 3, 6),  \* 0x0F
    OP(16, "BPL", "bpl", "Relative", 2, 2),  \* 0x10
    OP(17, "ORA", "ora", "Indirect_Y", 2, 5),  \* 0x11
    None,  \* 0x12
    OP(19, "*SLO", "slo", "Indirect_Y", 2, 8),  \* 0x13
    OP(20, "*NOP", "nop", "ZeroPage_X", 2, 4),  \* 0x14
    OP(21, "ORA", "ora", "ZeroPage_X", 2, 4),  \* 0x15
    OP(22, "ASL", "asl", "ZeroPage_X", 2, 6),  \* 0x16
    OP(23, "*SLO", "slo", "ZeroPage_X", 2, 6),  \* 0x17
    OP(24, "CLC", "clc", "NoneAddressing", 1, 2),  \* 0x18
    OP(25, "ORA", "ora", "Absolute_Y", 3, 4),  \* 0x19
    OP(26, "*NOP", "nop", "NoneAddressing", 1, 2),  \* 0x1A
    OP(27, "*SLO", "slo", "Absolute_Y", 3, 7),  \* 0x1B
    OP(28, "*NOP", "nop", "Absolute_X", 3, 4),  \* 0x1C
    OP(29, "ORA", "ora", "Absolute_X", 3, 4),  \* 0x1D
    OP(30, "ASL", "asl", "Absolute_X", 3, 7),  \* 0x1E
    OP(31, "*SLO", "slo", "Absolute_X", 3, 7),  \* 0x1F
    OP(32, "JSR", "jsr", "Absolute", 3, 6),  \* 0x20
    OP(33, "AND", "and", "Indirect_X", 2, 6),  \* 0x21
    None,  \* 0x22
    OP(35, "*RLA", "rla", "Indirect_X", 2, 8),  \* 0x23
    OP(36, "BIT", "bit", "ZeroPage", 2, 3),  \* 0x24
    OP(37, "AND", "and", "ZeroPage", 2, 3),  \* 0x25
    OP(38, "ROL", "rol", "ZeroPage", 2, 5),  \* 0x26
    OP(39, "*RLA", "rla", "ZeroPage", 2, 5),  \* 0x27
    OP(40, "PLP", "plp", "NoneAddressing", 1, 4),  \* 0x28
    OP(41, "AND", "and", "Immediate", 2, 2),  \* 0x29
    OP(42, "ROL", "rol", "Accumulator", 1, 2),  \* 0x2A
    OP(43, "*ANC", "anc", "Immediate", 2, 2),  \* 0x2B
    OP(44, "BIT", "bit", "Absolute", 3, 4),  \* 0x2C
    OP(45, "AND", "and", "Absolute", 3, 4),  \* 0x2D
    OP(46, "ROL", "rol", "Absolute", 3, 6),  \* 0x2E
    OP(47, "*RLA", "rla", "Absolute", 3, 6),  \* 0x2F
    OP(48, "BMI", "bmi", "Relative", 2, 2),  \* 0x30
    OP(49, "AND", "and", "Indirect_Y", 2, 5),  \* 0x31
    None,  \* 0x32
    OP(51, "*RLA", "rla", "Indirect_Y", 2, 8),  \* 0x33
    OP(52, "*NOP", "nop", "ZeroPage_X", 2, 4),  \* 0x34
    OP(53, "AND", "and", "ZeroPage_X", 2, 4),  \* 0x35
    OP(54, "ROL", "rol", "ZeroPage_X", 2, 6),  \* 0x36
    OP(55, "*RLA", "rla", "ZeroPage_X", 2, 6),  \* 0x37
    OP(56, "SEC", "sec", "NoneAddressing", 1, 2),  \* 0x38
    OP(57, "AND", "and", "Absolute_Y", 3, 4),  \* 0x39
    OP(58, "*NOP", "nop", "NoneAddressing", 1, 2),  \* 0x3A
    OP(59, "*RLA", "rla", "Absolute_Y", 3, 7),  \* 0x3B
    OP(60, "*NOP", "nop", "Absolute_X", 3, 4),  \* 0x3C
    OP(61, "AND", "and", "Absolute_X", 3, 4),  \* 0x3D
    OP(62, "ROL", "rol", "Absolute_X", 3, 7),  \* 0x3E
    OP(63, "*RLA", "rla", "Absolute_X", 3, 7),  \* 0x3F
    OP(64, "RTI", "rti", "NoneAddressing", 1, 6),  \* 0x40
    OP(65, "EOR", "eor", "Indirect_X", 2, 6),  \* 0x41
    None,  \* 0x42
    OP(67, "*SRE", "sre", "Indirect_X", 2, 8),  \* 0x43
    OP(68, "*NOP", "nop", "ZeroPage", 2, 3),  \* 0x44
    OP(69, "EOR", "eor", "ZeroPage", 2, 3),  \* 0x45
    OP(70, "LSR", "lsr", "ZeroPage", 2, 5),  \* 0x46
    OP(71, "*SRE", "sre", "ZeroPage", 2, 5),  \* 0x47
    OP(72, "PHA", "pha", "NoneAddressing", 1, 3),  \* 0x48
    OP(73, "EOR", "eor", "Immediate", 2, 2),  \* 0x49
    OP(74, "LSR", "lsr", "Accumulator", 1, 2),  \* 0x4A
    OP(75, "*ALR", "alr", "Immediate", 2, 2),  \* 0x4B
    OP(76, "JMP", "jmp", "Absolute", 3, 3),  \* 0x4C
    OP(77, "EOR", "eor", "Absolute", 3, 4),  \* 0x4D
    OP(78, "LSR", "lsr", "Absolute", 3, 6),  \* 0x4E
    OP(79, "*SRE", "sre", "Absolute", 3, 6),  \* 0x4F
    OP(80, "BVC", "bvc", "Relative", 2, 2),  \* 0x50
    OP(81, "EOR", "eor", "Indirect_Y", 2, 5),  \* 0x51
    None,  \* 0x52
    OP(83, "*SRE", "sre", "Indirect_Y", 2, 8),  \* 0x53
    OP(84, "*NOP", "nop", "ZeroPage_X", 2, 4),  \* 0x54
    OP(85, "EOR", "eor", "ZeroPage_X", 2, 4),  \* 0x55
    OP(86, "LSR", "lsr", "ZeroPage_X", 2, 6),  \* 0x56
    OP(87, "*SRE", "sre", "ZeroPage_X", 2, 6),  \* 0x57
    OP(88, "CLI", "cli", "NoneAddressing", 1, 2),  \* 0x58
    OP(89, "EOR", "eor", "Absolute_Y", 3, 4),  \* 0x59
    OP(90, "*NOP", "nop", "NoneAddressing", 1, 2),  \* 0x5A
    OP(91, "*SRE", "sre", "Absolute_Y", 3, 7),  \* 0x5B
    OP(92, "*NOP", "nop", "Absolute_X", 3, 4),  \* 0x5C
    OP(93, "EOR", "eor", "Absolute_X", 3, 4),  \* 0x5D
    OP(94, "LSR", "lsr", "Absolute_X", 3, 7),  \* 0x5E
    OP(95, "*SRE", "sre", "Absolute_X", 3, 7),  \* 0x5F
    OP(96, "RTS", "rts", "NoneAddressing", 1, 6),  \* 0x60
    OP(97, "ADC", "adc", "Indirect_X", 2, 6),  \* 0x61
    None,  \* 0x62
    OP(99, "*RRA", "rra", "Indirect_X", 2, 8),  \* 0x63
    OP(100, "*NOP", "nop", "ZeroPage", 2, 3),  \* 0x64
    OP(101, "ADC", "adc", "ZeroPage", 2, 3),  \* 0x65
    OP(102, "ROR", "ror", "ZeroPage", 2, 5),  \* 0x66
    OP(103, "*RRA", "rra", "ZeroPage", 2, 5),  \* 0x67
    OP(104, "PLA", "pla", "NoneAddressing", 1, 4),  \* 0x68
    OP(105, "ADC", "adc", "Immediate", 2, 2),  \* 0x69
    OP(106, "ROR", "ror", "Accumulator", 1, 2),  \* 0x6A
    OP(107, "*ARR", "arr", "Immediate", 2, 2),  \* 0x6B
    OP(108, "JMP", "jmp", "Indirect", 3, 5),  \* 0x6C
    OP(109, "ADC", "adc", "Absolute", 3, 4),  \* 0x6D
    OP(110, "ROR", "ror", "Absolute", 3, 6),  \* 0x6E
    OP(111, "*RRA", "rra", "Absolute", 3, 6),  \* 0x6F
    OP(112, "BVS", "bvs", "Relative", 2, 2),  \* 0x70
    OP(113, "ADC", "adc", "Indirect_Y", 2, 5),  \* 0x71
    None,  \* 0x72
    OP(115, "*RRA", "rra", "Indirect_Y", 2, 8),  \* 0x73
    OP(116, "*NOP", "nop", "ZeroPage_X", 2, 4),  \* 0x74
    OP(117, "ADC", "adc", "ZeroPage_X", 2, 4),  \* 0x75
    OP(118, "ROR", "ror", "ZeroPage_X", 2, 6),  \* 0x76
    OP(119, "*RRA", "rra", "ZeroPage_X", 2, 6),  \* 0x77
    OP(120, "SEI", "sei", "NoneAddressing", 1, 2),  \* 0x78
    OP(121, "ADC", "adc", "Absolute_Y", 3, 4),  \* 0x79
    OP(122, "*NOP", "nop", "NoneAddressing", 1, 2),  \* 0x7A
    OP(123, "*RRA", "rra", "Absolute_Y", 3, 7),  \* 0x7B
    OP(124, "*NOP", "nop", "Absolute_X", 3, 4),  \* 0x7C
    OP(125, "ADC", "adc", "Absolute_X", 3, 4),  \* 0x7D
    OP(126, "ROR", "ror", "Absolute_X", 3, 7),  \* 0x7E
    OP(127, "*RRA", "rra", "Absolute_X", 3, 7),  \* 0x7F
    OP(128, "*NOP", "nop", "Immediate", 2, 2),  \* 0x80
    OP(129, "STA", "sta", "Indirect_X", 2, 6),  \* 0x81
    OP(130, "*NOP", "nop", "Immediate", 2, 2),  \* 0x82
    OP(131, "*SAX", "sax", "Indirect_X", 2, 6),  \* 0x83
    OP(132, "STY", "sty", "ZeroPage", 2, 3),  \* 0x84
    OP(133, "STA", "sta", "ZeroPage", 2, 3),  \* 0x85
    OP(134, "STX", "stx", "ZeroPage", 2, 3),  \* 0x86
    OP(135, "*SAX", "sax", "ZeroPage", 2, 3),  \* 0x87
    OP(136, "DEY", "dey", "NoneAddressing", 1, 2),  \* 0x88
    OP(137, "*NOP", "nop", "Immediate", 2, 2),  \* 0x89
    OP(138, "TXA", "txa", "NoneAddressing", 1, 2),  \* 0x8A
    None,  \* 0x8B
    OP(140, "STY", "sty", "Absolute", 3, 4),  \* 0x8C
    OP(141, "STA", "sta", "Absolute", 3, 4),  \* 0x8D
    OP(142, "STX", "stx", "Absolute", 3, 4),  \* 0x8E
    OP(143, "*SAX", "sax", "Absolute", 3, 4),  \* 0x8F
    OP(144, "BCC", "bcc", "Relative", 2, 2),  \* 0x90
    OP(145, "STA", "sta", "Indirect_Y", 2, 6),  \* 0x91
    None,  \* 0x92
    None,  \* 0x93
    OP(148, "STY", "sty", "ZeroPage_X", 2, 4),  \* 0x94
    OP(149, "STA", "sta", "ZeroPage_X", 2, 4),  \* 0x95
    OP(150, "STX", "stx", "ZeroPage_Y", 2, 4),  \* 0x96
    OP(151, "*SAX", "sax", "ZeroPage_Y", 2, 4),  \* 0x97
    OP(152, "TYA", "tya", "NoneAddressing", 1, 2),  \* 0x98
    OP(153, "STA", "sta", "Absolute_Y", 3, 5),  \* 0x99
    OP(154, "TXS", "txs", "NoneAddressing", 1, 2),  \* 0x9A
    None,  \* 0x9B
    None,  \* 0x9C
    OP(157, "STA", "sta", "Absolute_X", 3, 5),  \* 0x9D
    None,  \* 0x9E
    None,  \* 0x9F
    OP(160, "LDY", "ldy", "Immediate", 2, 2),  \* 0xA0
    OP(161, "LDA", "lda", "Indirect_X", 2, 6),  \* 0xA1
    OP(162, "LDX", "ldx", "Immediate", 2, 2),  \* 0xA2
    OP(163, "*LAX", "lax", "Indirect_X", 2, 6),  \* 0xA3
    OP(164, "LDY", "ldy", "ZeroPage", 2, 3),  \* 0xA4
    OP(165, "LDA", "lda", "ZeroPage", 2, 3),  \* 0xA5
    OP(166, "LDX", "ldx", "ZeroPage", 2, 3),  \* 0xA6
    OP(167, "*LAX", "lax", "ZeroPage", 2, 3),  \* 0xA7
    OP(168, "TAY", "tay", "NoneAddressing", 1, 2),  \* 0xA8
    OP(169, "LDA", "lda", "Immediate", 2, 2),  \* 0xA9
    OP(170, "TAX", "tax", "NoneAddressing", 1, 2),  \* 0xAA
    None,  \* 0xAB
    OP(172, "LDY", "ldy", "Absolute", 3, 4),  \* 0xAC
    OP(173, "LDA", "lda", "Absolute", 3, 4),  \* 0xAD
    OP(174, "LDX", "ldx", "Absolute", 3, 4),  \* 0xAE
    OP(175, "*LAX", "lax", "Absolute", 3, 4),  \* 0xAF
    OP(176, "BCS", "bcs", "Relative", 2, 2),  \* 0xB0
    OP(177, "LDA", "lda", "Indirect_Y", 2, 5),  \* 0xB1
    None,  \* 0xB2
    OP(179, "*LAX", "lax", "Indirect_Y", 2, 5),  \* 0xB3
    OP(180, "LDY", "ldy", "ZeroPage_X", 2, 4),  \* 0xB4
    OP(181, "LDA", "lda", "ZeroPage_X", 2, 4),  \* 0xB5
    OP(182, "LDX", "ldx", "ZeroPage_Y", 2, 4),  \* 0xB6
    OP(183, "*LAX", "lax", "ZeroPage_Y", 2, 4),  \* 0xB7
    OP(184, "CLV", "clv", "NoneAddressing", 1, 2),  \* 0xB8
    OP(185, "LDA", "lda", "Absolute_Y", 3, 4),  \* 0xB9
    OP(186, "TSX", "tsx", "NoneAddressing", 1, 2),  \* 0xBA
    None,  \* 0xBB
    OP(188, "LDY", "ldy", "Absolute_X", 3, 4),  \* 0xBC
    OP(189, "LDA", "lda", "Absolute_X", 3, 4),  \* 0xBD
    OP(190, "LDX", "ldx", "Absolute_Y", 3, 4),  \* 0xBE
    OP(191, "*LAX", "lax", "Absolute_Y", 3, 4),  \* 0xBF
    OP(192, "CPY", "cpy", "Immediate", 2, 2),  \* 0xC0
    OP(193, "CMP", "cmp", "Indirect_X", 2, 6),  \* 0xC1
    OP(194, "*NOP", "nop", "Immediate", 2, 2),  \* 0xC2
    OP(195, "*DCP", "dcp", "Indirect_X", 2, 8),  \* 0xC3
    OP(196, "CPY", "cpy", "ZeroPage", 2, 3),  \* 0xC4
    OP(197, "CMP", "cmp", "ZeroPage", 2, 3),  \* 0xC5
    OP(198, "DEC", "dec", "ZeroPage", 2, 5),  \* 0xC6
    OP(199, "*DCP", "dcp", "ZeroPage", 2, 5),  \* 0xC7
    OP(200, "INY", "iny", "NoneAddressing", 1, 2),  \* 0xC8
    OP(201, "CMP", "cmp", "Immediate", 2, 2),  \* 0xC9
    OP(202, "DEX", "dex", "NoneAddressing", 1, 2),  \* 0xCA
    OP(203, "*AXS", "axs", "Immediate", 2, 2),  \* 0xCB
    OP(204, "CPY", "cpy", "Absolute", 3, 4),  \* 0xCC
    OP(205, "CMP", "cmp", "Absolute", 3, 4),  \* 0xCD
    OP(206, "DEC", "dec", "Absolute", 3, 6),  \* 0xCE
    OP(207, "*DCP", "dcp", "Absolute", 3, 6),  \* 0xCF
    OP(208, "BNE", "bne", "Relative", 2, 2),  \* 0xD0
    OP(209, "CMP", "cmp", "Indirect_Y", 2, 5),  \* 0xD1
    None,  \* 0xD2
    OP(211, "*DCP", "dcp", "Indirect_Y", 2, 8),  \* 0xD3
    OP(212, "*NOP", "nop", "ZeroPage_X", 2, 4),  \* 0xD4
    OP(213, "CMP", "cmp", "ZeroPage_X", 2, 4),  \* 0xD5
    OP(214, "DEC", "dec", "ZeroPage_X", 2, 6),  \* 0xD6
    OP(215, "*DCP", "dcp", "ZeroPage_X", 2, 6),  \* 0xD7
    OP(216, "CLD", "cld", "NoneAddressing", 1, 2),  \* 0xD8
    OP(217, "CMP", "cmp", "Absolute_Y", 3, 4),  \* 0xD9
    OP(218, "*NOP", "nop", "NoneAddressing", 1, 2),  \* 0xDA
    OP(219, "*DCP", "dcp", "Absolute_Y", 3, 7),  \* 0xDB
    OP(220, "*NOP", "nop", "Absolute_X", 3, 4),  \* 0xDC
    OP(221, "CMP", "cmp", "Absolute_X", 3, 4),  \* 0xDD
    OP(222, "DEC", "dec", "Absolute_X", 3, 7),  \* 0xDE
    OP(223, "*DCP", "dcp", "Absolute_X", 3, 7),  \* 0xDF
    OP(224, "CPX", "cpx", "Immediate", 2, 2),  \* 0xE0
    OP(225, "SBC", "sbc", "Indirect_X", 2, 6),  \* 0xE1
    OP(226, "*NOP", "nop", "Immediate", 2, 2),  \* 0xE2
    OP(227, "*ISB", "isc", "Indirect_X", 2, 8),  \* 0xE3
    OP(228, "CPX", "cpx", "ZeroPage", 2, 3),  \* 0xE4
    OP(229, "SBC", "sbc", "ZeroPage", 2, 3),  \* 0xE5
    OP(230, "INC", "inc", "ZeroPage", 2, 5),  \* 0xE6
    OP(231, "*ISB", "isc", "ZeroPage", 2, 5),  \* 0xE7
    OP(232, "INX", "inx", "NoneAddressing", 1, 2),  \* 0xE8
    OP(233, "SBC", "sbc", "Immediate", 2, 2),  \* 0xE9
    OP(234, "NOP", "nop", "NoneAddressing", 1, 2),  \* 0xEA
    OP(235, "*SBC", "sbc", "Immediate", 2, 2),  \* 0xEB
    OP(236, "CPX", "cpx", "Absolute", 3, 4),  \* 0xEC
    OP(237, "SBC", "sbc", "Absolute", 3, 4),  \* 0xED
    OP(238, "INC", "inc", "Absolute", 3, 6),  \* 0xEE
    OP(239, "*ISB", "isc", "Absolute", 3, 6),  \* 0xEF
    OP(240, "BEQ", "beq", "Relative", 2, 2),  \* 0xF0
    OP(241, "SBC", "sbc", "Indirect_Y", 2, 5),  \* 0xF1
    None,  \* 0xF2
    OP(243, "*ISB", "isc", "Indirect_Y", 2, 8),  \* 0xF3
    OP(244, "*NOP", "nop", "ZeroPage_X", 2, 4),  \* 0xF4
    OP(245, "SBC", "sbc", "ZeroPage_X", 2, 4),  \* 0xF5
    OP(246, "INC", "inc", "ZeroPage_X", 2, 6),  \* 0xF6
    OP(247, "*ISB", "isc", "ZeroPage_X", 2, 6),  \* 0xF7
    OP(248, "SED", "sed", "NoneAddressing", 1, 2),  \* 0xF8
    OP(249, "SBC", "sbc", "Absolute_Y", 3, 4),  \* 0xF9
    OP(250, "*NOP", "nop", "NoneAddressing", 1, 2),  \* 0xFA
    OP(251, "*ISB", "isc", "Absolute_Y", 3, 7),  \* 0xFB
    OP(252, "*NOP", "nop", "Absolute_X", 3, 4),  \* 0xFC
    OP(253, "SBC", "sbc", "Absolute_X", 3, 4),  \* 0xFD
    OP(254, "INC", "inc", "Absolute_X", 3, 7),  \* 0xFE
    OP(255, "*ISB", "isc", "Absolute_X", 3, 7)   \* 0xFF
  >>

\* <OP as From<u8>>::from: None is the panic "Opcode not found"
\* The decoding written so that an empty entry decodes to NOP
OP_from_or_nop(value) ==
  IF OPCODE_TABLE[value + 1] = None THEN OPCODE_TABLE[235] ELSE OPCODE_TABLE[value + 1]

OP_from(value) == OPCODE_TABLE[value + 1]

\* The code field of the entry `value.into()` yields, -1 where it panics
decoded(value) == IF OP_from(value) = None THEN -1 ELSE OP_from(value).code

\* OP::execute: the call of the handler with the entry's addressing mode
execute(m, op) ==
  CASE op.op = "adc" -> adc(m, op.mode)
    [] op.op = "alr" -> alr(m, op.mode)
    [] op.op = "anc" -> anc(m, op.mode)
    [] op.op = "and" -> and(m, op.mode)
    [] op.op = "arr" -> arr(m, op.mode)
    [] op.op = "asl" -> asl(m, op.mode)
    [] op.op = "axs" -> axs(m, op.mode)
    [] op.op = "bcc" -> bcc(m, op.mode)
    [] op.op = "bcs" -> bcs(m, op.mode)
    [] op.op = "beq" -> beq(m, op.mode)
    [] op.op = "bit" -> bit(m, op.mode)
    [] op.op = "bmi" -> bmi(m, op.mode)
    [] op.op = "bne" -> bne(m, op.mode)
    [] op.op = "bpl" -> bpl(m, op.mode)
    [] op.op = "brk" -> brk(m, op.mode)
    [] op.op = "bvc" -> bvc(m, op.mode)
    [] op.op = "bvs" -> bvs(m, op.mode)
    [] op.op = "clc" -> clc(m, op.mode)
    [] op.op = "cld" -> cld(m, op.mode)
    [] op.op = "cli" -> cli(m, op.mode)
    [] op.op = "clv" -> clv(m, op.mode)
    [] op.op = "cmp" -> cmp(m, op.mode)
    [] op.op = "cpx" -> cpx(m, op.mode)
    [] op.op = "cpy" -> cpy(m, op.mode)
    [] op.op = "dcp" -> dcp(m, op.mode)
    [] op.op = "dec" -> dec(m, op.mode)
    [] op.op = "dex" -> dex(m, op.mode)
    [] op.op = "dey" -> dey(m, op.mode)
    [] op.op = "eor" -> eor(m, op.mode)
    [] op.op = "inc" -> inc(m, op.mode)
    [] op.op = "inx" -> inx(m, op.mode)
    [] op.op = "iny" -> iny(m, op.mode)
    [] op.op = "isc" -> isc(m, op.mode)
    [] op.op = "jmp" -> jmp(m, op.mode)
    [] op.op = "jsr" -> jsr(m, op.mode)
    [] op.op = "lax" -> lax(m, op.mode)
    [] op.op = "lda" -> lda(m, op.mode)
    [] op.op = "ldx" -> ldx(m, op.mode)
    [] op.op = "ldy" -> ldy(m, op.mode)
    [] op.op = "lsr" -> lsr(m, op.mode)
    [] op.op = "nop" -> nop(m, op.mode)
    [] op.op = "ora" -> ora(m, op.mode)
    [] op.op = "pha" -> pha(m, op.mode)
    [] op.op = "php" -> php(m, op.mode)
    [] op.op = "pla" -> pla(m, op.mode)
    [] op.op = "plp" -> plp(m, op.mode)
    [] op.op = "rla" -> rla(m, op.mode)
    [] op.op = "rol" -> rol(m, op.mode)
    [] op.op = "ror" -> ror(m, op.mode)
    [] op.op = "rra" -> rra(m, op.mode)
    [] op.op = "rti" -> rti(m, op.mode)
    [] op.op = "rts" -> rts(m, op.mode)
    [] op.op = "sax" -> sax(m, op.mode)
    [] op.op = "sbc" -> sbc(m, op.mode)
    [] op.op = "sec" -> sec(m, op.mode)
    [] op.op = "sed" -> sed(m, op.mode)
    [] op.op = "sei" -> sei(m, op.mode)
    [] op.op = "slo" -> slo(m, op.mode)
    [] op.op = "sre" -> sre(m, op.mode)
    [] op.op = "sta" -> sta(m, op.mode)
    [] op.op = "stx" -> stx(m, op.mode)
    [] op.op = "sty" -> sty(m, op.mode)
    [] op.op = "tax" -> tax(m, op.mode)
    [] op.op = "tay" -> tay(m, op.mode)
    [] op.op = "tsx" -> tsx(m, op.mode)
    [] op.op = "txa" -> txa(m, op.mode)
    [] op.op = "txs" -> txs(m, op.mode)
    [] op.op = "tya" -> tya(m, op.mode)

\* The opcode fetch and `opcode.execute(self)` of the loop body
fetch_execute(m) ==
  Bind(mem_read_pc_u8(m), LAMBDA f :
    IF f.panic THEN f
    ELSE Bind(OP_from(f.ret), LAMBDA op :
           IF op = None THEN Panic(f) ELSE execute(f, op)))

\* What a callback does to the machine
callback(m, cb) == IF cb = <<>> THEN m ELSE CPU_mem_write_u8(m, cb[1], cb[2])

Call(m, f, args) ==
  CASE f = "mem_read_u8" -> bus_read(m, args[1])
    [] f = "mem_write_u8" -> bus_write(m, args[1], args[2])
    [] f = "reset" -> reset(m)
    [] f = "load" -> load(m, args[1])
    [] f = "callback" -> callback(m, args[1])
    [] f = "fetch_execute" -> fetch_execute(m)
    [] f = "execute" -> execute(m, OP_from(args[1]))
    [] f = "stack_push_value_u8" -> stack_push_value_u8(m, args[1])
    [] f = "stack_pull_value_u8" -> stack_pull_value_u8(m)
    [] f = "mem_read_pc_u8" -> mem_read_pc_u8(m)
    [] f = "mem_read_pc_u16" -> mem_read_pc_u16(m)
    [] f = "mem_read_u16" -> mem_read_u16(m, args[1])
    [] f = "mem_write_u16" -> mem_write_u16(m, args[1], args[2])

(***************************************************************************)
(* Bounds of the model and the inputs the actions draw from.               *)
(***************************************************************************)
\* tick calls (PPU::tick and Bus::tick together) in one behaviour
MaxTicks == 3

\* PPU cycle counts handed to PPU::tick: a single cycle, a scanline less one,
\* 21 and 240 scanlines, the 241 scanlines up to VBlank, a frame
TickCounts == {1, 340, 21 * 341, 240 * 341, 241 * 341, 262 * 341}

\* Counts 2^32 - deficit handed to PPU::tick: u32::MAX
HugeTickDeficits == {1}

\* CPU cycle counts handed to Bus::tick: one cycle; the first count that
\* takes a PPU at (0, 0) to scanline 241; and 2^32 / 3 rounded up, for which
\* count * 3 is 2^32 + 2
BusTickCounts == {1, 27394, 1431655766}

\* Memory accesses through the bus in one behaviour
MaxBusOps == 2

\* Addresses read and written through the bus: the first RAM cell, two of
\* its mirrors and the last cell in the last mirror; the PPU registers
\* PPUCTRL, PPUSTATUS, PPUSCROLL, PPUADDR, PPUDATA and a mirror of PPUSTATUS;
\* the unmapped range; the first byte of PRG ROM, the first of its upper
\* half, and the reset vector
BusAddrs == {0, 2048, 6144, 8191, 8192, 8194, 8197, 8198, 8199, 8202, 16384,
             32768, 49152, 65532}

\* Bytes written through the bus: PPUADDR halves reaching CHR, nametable
\* and palette space, and the NMI-enable bit
BusData == {0, 32, 63, 128}

\* Cartridges inserted: the 32 KiB one of Rom::from_pc, and a 16 KiB one
\* with its first byte and the low byte of its reset vector set
Roms == {Rom_from_pc(32768),
         Rom_from_prg(Vec(PRG_ROM_PAGE_SIZE, {<<0, 170>>, <<16380, 52>>}))}

\* Length of the programs loaded
MaxProgramLen == 4

\* Opcode fetches in one behaviour
MaxInstructions == 6

\* Bytes the programs are made of: BRK, BPL (as an operand, a byte with bit
\* 4 set), PLP, RTI, PHA, LDA immediate, and 0x02, which the instruction
\* table leaves empty
ProgramBytes == {0, 16, 40, 64, 72, 169, 2}

Programs == UNION {[1..n -> ProgramBytes] : n \in 1..MaxProgramLen}

\* The one-byte programs, one for every value of an opcode byte; the cells
\* after the byte hold zero
DecodePrograms == {<<b>> : b \in 0..(U8 - 1)}

\* Subroutine calls laid out in RAM: the address of a JSR operand and the
\* target it holds; the third calls the first again
JsrCalls == <<<<1536, 1552>>, <<1552, 1568>>, <<1568, 1536>>>>

\* Program counter at the first jsr: the first operand of JsrCalls, and
\* the last cell of the stack page, whose operand is zero
JsrPcs == {1536, 511}

\* Stack pointer at the first jsr: the initial 0xFF, the values 0x00 and
\* 0x01 from which the two pushes wrap to the top of the page, and 0x80
StackPointers == {255, 0, 1, 128}

\* Pushes and pulls in one behaviour
MaxStackOps == 5

\* Bytes pushed
PushBytes == {17, 51}

\* Fetches and 16-bit accesses in one behaviour
MaxWrapOps == 3

\* Reset vectors of the cartridges inserted: the last three addresses, the
\* last RAM cell and 0
WrapPcs == {0, 2047, 65533, 65534, 65535}

\* Addresses of the 16-bit reads and writes: the last RAM cell, whose
\* successor is the first mirror of cell 0, and the last two addresses
WrapAddrs == {2047, 65534, 65535}

\* 16-bit values written
WrapWords == {4660}

\* Images handed to Rom::new: the PRG and CHR page counts, the control
\* bytes (no bit; vertical; trainer; four-screen; both mirroring bits; a
\* mapper nibble), with and without the 512 trainer bytes
PrgPages == {1, 2}

ChrPages == {0, 1}

ControlBytes == {0, 1, 4, 8, 9, 16}

\* Lengths the images are cut to: nothing, less than the tag, less than the
\* control bytes, the header alone, one byte less than the whole, the whole
ImageCuts == {0, 3, 6, 16}

\* First bytes of the images: the 'N' of the tag, and another letter
TagBytes == {78, 77}

\* Handler calls in one behaviour of the comparison handlers
MaxCompareOps == 2

\* Register and operand bytes of the comparison handlers: zero, one, a low
\* nibble, the two bytes around the sign bit, the greatest
CompareAs == {0, 1, 127, 128, 255}

CompareXs == {0, 15, 128, 255}

CompareYs == {0, 128}

CompareOperands == {0, 1, 15, 127, 128, 255}

\* Status bytes the handlers start from: no flag but bit 5 and I, then with
\* Carry, with Zero and Negative, and with all three
CompareStatuses == {36, 37, 166, 167}

\* The opcodes CMP, CPX, CPY and AXS with an immediate operand
CompareOpcodes == {201, 224, 192, 203}

\* Handler calls in one behaviour of the arithmetic handlers
MaxArithmeticOps == 4

\* Accumulator and operand bytes of the arithmetic handlers: the bytes
\* around 0, around the nibble, around the sign bit and around 0xFF
ArithmeticBytes == {0, 1, 15, 16, 64, 127, 128, 129, 192, 254, 255}

\* Status bytes the handlers start from, Decimal clear: no flag but bit 5
\* and I, then with Carry, with Zero, Overflow and Negative, and with all
ArithmeticStatuses == {36, 37, 230, 231}

\* The opcodes ADC and SBC with an immediate operand, CLC and SEC
ArithmeticOpcodes == {105, 233, 24, 56}

\* Registers, status bytes and operand bytes the handlers of the whole table
\* are called with; with X = 0x81 the zero-page,X address of the operand
\* 0x80 is the cell 1, which holds the operand
FlagAs == {0, 128, 255}

FlagXs == {0, 1, 129}

FlagYs == {0, 1}

FlagStatuses == {36, 37, 166}

FlagOperands == {0, 1, 2, 128, 255}

\* Accumulators, operands and status bytes of the ARR calls: the AND results
\* cover the four settings of bits 6 and 5, with bit 0 and bit 7 set or clear
ArrAs == {255, 96, 127, 224}

ArrOperands == {0, 32, 64, 96, 33, 193, 255}

ArrStatuses == {36, 37, 100, 231}

\* ARR with an immediate operand
ArrOpcodes == {107}

\* Stack pointers, status bytes, stacked status bytes and stacked return
\* addresses of the RTI calls: the three pulls stay in the page, or wrap
\* after the first, the second or the third
RtiStacks == {252, 253, 254, 255, 0}

RtiStatuses == {36, 52, 4, 255, 16}

RtiStackedStatuses == {0, 255, 48, 207, 170}

RtiStackedPcs == {13398, 65535, 1}

\* RTI
RtiOpcodes == {64}

\* The address of the operand of the calls that resolve a pointer
PointerPc == 1536

\* The operand: a pointer in the last cell of page 2 and one inside the page;
\* its low byte is the zero-page operand of the indexed modes
PointerOperands == {767, 640}

PointerAs == {119, 136}

PointerXs == {0, 1, 127, 255}

PointerYs == {0, 1, 255}

\* The bytes the pointers are read from: address and value, each value
\* different, the high bytes inside the RAM
PointerCells ==
  <<<<0, 3>>, <<255, 16>>, <<256, 4>>, <<127, 32>>, <<128, 5>>, <<129, 6>>,
    <<640, 64>>, <<641, 7>>, <<767, 80>>, <<512, 1>>, <<768, 2>>>>

\* JMP (ind), LDA (zp,X), LDA (zp),Y, STA (zp,X), STA (zp),Y
PointerOpcodes == {108, 161, 177, 129, 145}

\* Addresses of the operand of the branches: in the zero page, where a
\* backward branch wraps below 0; in the RAM; in the cartridge, where a
\* forward branch wraps above $FFFF; the last address
BranchPcs == {16, 1536, 65520, 65535}

\* Offsets: 0, +16, +127, -128, -10
BranchOperands == {0, 16, 127, 128, 246}

\* Status bytes: each of Carry, Zero, Overflow and Negative alone, none, all
BranchStatuses == {36, 37, 38, 100, 164, 255}

\* BPL, BMI, BVC, BVS, BCC, BCS, BNE, BEQ
BranchOpcodes == {16, 48, 80, 112, 144, 176, 208, 240}

\* The operand of the read-modify-write calls, at PointerPc: the absolute
\* address $0280, whose low byte $80 is the zero-page operand
RmwOperands == {640}

RmwAs == {0, 64, 127, 255}

RmwXs == {0, 1}

RmwYs == {0, 1}

RmwStatuses == {36, 37}

\* The byte the handlers read and write back
RmwValues == {0, 1, 85, 127, 128, 255}

\* The cells written with the byte value: either the cells the zero-page
\* and absolute modes address, or the cells ($0310, $0311, $0303) that the
\* pointers at $80 and $81 address
RmwCells(value, indirect) ==
  IF indirect
  THEN <<<<128, 16>>, <<129, 3>>, <<130, 3>>,
         <<784, value>>, <<785, value>>, <<771, value>>>>
  ELSE <<<<128, value>>, <<129, value>>, <<640, value>>, <<641, value>>>>

\* The opcodes the table populates
PopulatedOpcodes == {code \in 0..(U8 - 1) : OP_from(code) # None}

\* What the callback of run_with_callback does with the CPU it is handed:
\* nothing (the empty sequence), or a write of a key code to the cell $FF
Callbacks == {<<>>, <<255, 119>>}

\* PPUADDR, PPUSCROLL and PPUDATA accesses made on the PPU in one behaviour
MaxDataOps == 5

\* Bytes written to PPUADDR: the high bytes of CHR space, of the nametables
\* 0, 1 and 2 and of the range $3000-$3EFF, and 0xFF, which as a high byte
\* is above the 14 bits of the address and as a low byte is the last of a page
AddrBytes == {0, 32, 36, 40, 48, 255}

\* Bytes written to PPUSCROLL
ScrollBytes == {5}

\* Bytes written to PPUDATA
DataBytes == {17}

\* CHR images of the cartridges: 8 KiB with two bytes set
ChrRoms == {Vec(CHR_ROM_PAGE_SIZE, {<<0, 7>>, <<1, 9>>})}

\* PPU addresses of the four nametables
NametableAddrs == 8192..12287

\* Bytes written to PPUCTRL before the data port is used: an address
\* increment of 1 and of 32
IncrementValues == {0, VRAM_ADD_INCREMENT}

\* Bytes written to PPUCTRL
CtrlValues == {0, GENERATE_NMI, GENERATE_NMI + VRAM_ADD_INCREMENT}

(***************************************************************************)
(* History variables.                                                      *)
(***************************************************************************)
\* ticks_total: the PPU cycles applied so far, or -1 once an addition has
\*              wrapped (the sum is then no longer the PPU's position)
\* nticks:      the number of tick calls
\* polls_after: the number of poll_nmi_status calls made after 241 * 341
\*              cycles were applied (counted up to 2)
\* callbacks:   callback invocations made by run_with_callback
\* instructions: opcode fetches made by run_with_callback
\* bus_ops:     memory accesses made through the bus, or on the PPU's
\*              address and data ports
\* written:     the PPU address and the byte of the last write_to_data call
\*              made on the PPU (the empty sequence before the first)
HistInit ==
  [ticks_total |-> 0, nticks |-> 0, polls_after |-> 0,
   callbacks |-> 0, instructions |-> 0, bus_ops |-> 0, written |-> <<>>,
   calls |-> <<>>, pushed |-> <<>>, adc |-> <<>>]

LastInit == [op |-> "new", arg |-> 0, ret |-> 0]

VBlankAt == VBlankScanline * CyclesPerScanline

FrameCycles == ScanlinesPerFrame * CyclesPerScanline

AddTicks(h, n) ==
  [h EXCEPT !.ticks_total = IF h.ticks_total < 0 THEN -1 ELSE h.ticks_total + n,
            !.nticks = h.nticks + 1]

LoseTicks(h) == [h EXCEPT !.ticks_total = -1, !.nticks = h.nticks + 1]

BoolInt(b) == IF b THEN 1 ELSE 0

(***************************************************************************)
(* The PPU driven by its owner: tick calls and register accesses in any    *)
(* order.                                                                  *)
(***************************************************************************)
InitPPU ==
  /\ cpu = CPU_new
  /\ cpu_ram = Vec(2048, {})
  /\ rom = None
  /\ ppu = PPU_new(Vec(0, {}), Horizontal)
  /\ loc = "idle"
  /\ panicked = FALSE
  /\ last = LastInit
  /\ hist = HistInit

BusIdle == loc = "idle" /\ ~panicked

Idle == BusIdle /\ ppu # None

\* ppu.tick(n)
PpuTick ==
  /\ Idle
  /\ hist.nticks < MaxTicks
  /\ \E n \in TickCounts :
       /\ ppu' = tick(ppu, n)
       /\ hist' = AddTicks(hist, n)
  /\ last' = [op |-> "tick", arg |-> 0, ret |-> 0]
  /\ UNCHANGED <<cpu, cpu_ram, rom, loc, panicked>>

\* ppu.tick(n) where cycle + n does not fit a u32: the build decides
PpuTickOverflow ==
  /\ Idle
  /\ hist.nticks < MaxTicks
  /\ \E d \in HugeTickDeficits :
       /\ tick_overflows(ppu, d)
       /\ \/ /\ panicked' = TRUE
             /\ UNCHANGED ppu
          \/ /\ ppu' = tick_wrapped(ppu, d)
             /\ UNCHANGED panicked
  /\ hist' = LoseTicks(hist)
  /\ last' = [op |-> "tick", arg |-> 0, ret |-> 0]
  /\ UNCHANGED <<cpu, cpu_ram, rom, loc>>

\* bus.tick(count)
BusTick ==
  /\ BusIdle
  /\ hist.nticks < MaxTicks
  /\ \E count \in BusTickCounts :
       \/ /\ ~bus_tick_overflows(count)
          /\ ppu' = bus_tick(ppu, count)
          /\ hist' = AddTicks(hist, IF ppu = None THEN 0 ELSE bus_tick_cycles(count))
          /\ UNCHANGED panicked
       \/ /\ bus_tick_overflows(count)
          /\ panicked' = TRUE
          /\ hist' = LoseTicks(hist)
          /\ UNCHANGED ppu
       \/ /\ bus_tick_overflows(count)
          /\ ppu' = bus_tick(ppu, count)
          /\ hist' = LoseTicks(hist)
          /\ UNCHANGED panicked
  /\ last' = [op |-> "bus_tick", arg |-> 0, ret |-> 0]
  /\ UNCHANGED <<cpu, cpu_ram, rom, loc>>

\* ppu.write_to_ctrl(value)
WriteCtrl ==
  /\ Idle
  /\ \E value \in CtrlValues :
       /\ ppu' = write_to_ctrl(ppu, value)
       /\ last' = [op |-> "write_to_ctrl", arg |-> value, ret |-> 0]
  /\ UNCHANGED <<cpu, cpu_ram, rom, loc, panicked, hist>>

\* ppu.read_status()
ReadStatus ==
  /\ Idle
  /\ ppu' = read_status(ppu).ppu
  /\ last' = [op |-> "read_status", arg |-> 0, ret |-> read_status(ppu).ret]
  /\ UNCHANGED <<cpu, cpu_ram, rom, loc, panicked, hist>>

\* bus.poll_nmi_status()
PollNmi ==
  /\ BusIdle
  /\ ppu' = poll_nmi_status(ppu).ppu
  /\ last' = [op |-> "poll_nmi_status", arg |-> 0,
              ret |-> BoolInt(poll_nmi_status(ppu).ret)]
  /\ hist' = [hist EXCEPT !.polls_after =
                IF hist.ticks_total >= VBlankAt /\ hist.polls_after < 2
                THEN hist.polls_after + 1 ELSE hist.polls_after]
  /\ UNCHANGED <<cpu, cpu_ram, rom, loc, panicked>>

NextPPU ==
  \/ PpuTick
  \/ PpuTickOverflow
  \/ BusTick
  \/ WriteCtrl
  \/ ReadStatus
  \/ PollNmi

SpecPPU == InitPPU /\ [][NextPPU]_vars

(***************************************************************************)
(* The same PPU with NMI generation enabled before the first tick and      *)
(* PPUCTRL left alone afterwards.                                          *)
(***************************************************************************)
NmiEnableValues == {v \in CtrlValues : Contains(v, GENERATE_NMI)}

InitVBlank ==
  /\ cpu = CPU_new
  /\ cpu_ram = Vec(2048, {})
  /\ rom = None
  /\ \E v \in NmiEnableValues : ppu = write_to_ctrl(PPU_new(Vec(0, {}), Horizontal), v)
  /\ loc = "idle"
  /\ panicked = FALSE
  /\ last = LastInit
  /\ hist = HistInit

NextVBlank ==
  \/ PpuTick
  \/ PpuTickOverflow
  \/ BusTick
  \/ ReadStatus
  \/ PollNmi

SpecVBlank == InitVBlank /\ [][NextVBlank]_vars

(***************************************************************************)
(* The PPU's address and data ports driven by its owner: PPUADDR,          *)
(* and PPUDATA writes and PPUDATA reads in any order, on a PPU whose owner  *)
(* has written PPUCTRL and then set the address by two PPUADDR writes.     *)
(***************************************************************************)
InitData ==
  /\ cpu = CPU_new
  /\ cpu_ram = Vec(2048, {})
  /\ rom = None
  /\ \E chr_rom \in ChrRoms, mirroring \in {Horizontal, Vertical},
        ctrl \in IncrementValues, h \in AddrBytes :
       ppu = write_to_ppu_addr(
               write_to_ppu_addr(
                 write_to_ctrl(PPU_new(chr_rom, mirroring), ctrl), h), 0)
  /\ loc = "idle"
  /\ panicked = FALSE
  /\ last = LastInit
  /\ hist = HistInit

DataIdle == Idle /\ hist.bus_ops < MaxDataOps

\* The PPU left by a call that returned, or left behind by the panic that
\* ended it
PpuOutcome(r) == ppu' = r.obj /\ panicked' = r.panic

\* ppu.write_to_ppu_addr(value)
WriteAddr ==
  /\ DataIdle
  /\ \E value \in AddrBytes :
       /\ ppu' = write_to_ppu_addr(ppu, value)
       /\ last' = [op |-> "write_to_ppu_addr", arg |-> value, ret |-> 0]
  /\ hist' = [hist EXCEPT !.bus_ops = hist.bus_ops + 1]
  /\ UNCHANGED <<cpu, cpu_ram, rom, loc, panicked>>

\* ppu.write_to_scroll(value)
WriteScroll ==
  /\ DataIdle
  /\ \E value \in ScrollBytes :
       /\ ppu' = write_to_scroll(ppu, value)
       /\ last' = [op |-> "write_to_scroll", arg |-> value, ret |-> 0]
  /\ hist' = [hist EXCEPT !.bus_ops = hist.bus_ops + 1]
  /\ UNCHANGED <<cpu, cpu_ram, rom, loc, panicked>>

\* ppu.write_to_data(value)
WriteData ==
  /\ DataIdle
  /\ \E value \in DataBytes :
       \E r \in {write_to_data(ppu, value)} :
         /\ PpuOutcome(r)
         /\ last' = [op |-> "write_to_data", arg |-> value, ret |-> 0]
         /\ hist' = [hist EXCEPT !.bus_ops = hist.bus_ops + 1,
                                 !.written = <<PPUADDRESS_get(ppu.ppu_addr), value>>]
  /\ UNCHANGED <<cpu, cpu_ram, rom, loc>>

\* ppu.read_data()
ReadData ==
  /\ DataIdle
  /\ \E r \in {read_data(ppu)} :
       /\ PpuOutcome(r)
       /\ last' = [op |-> "read_data", arg |-> 0, ret |-> r.ret]
  /\ hist' = [hist EXCEPT !.bus_ops = hist.bus_ops + 1]
  /\ UNCHANGED <<cpu, cpu_ram, rom, loc>>

\* ppu.mirror_vram_addr(addr), on the PPU as its owner has set it up
MirrorVramAddr ==
  /\ Idle
  /\ last.op = "new"
  /\ \E addr \in NametableAddrs :
       last' = [op |-> "mirror_vram_addr", arg |-> addr,
                ret |-> mirror_vram_addr(ppu, addr)]
  /\ UNCHANGED <<cpu, cpu_ram, rom, ppu, loc, panicked, hist>>

NextData ==
  \/ WriteAddr
  \/ WriteData
  \/ ReadData
  \/ MirrorVramAddr

SpecData == InitData /\ [][NextData]_vars

\* The same accesses on the PPU of a cartridge of any mirroring a parsed
\* image carries
InitMirroring ==
  /\ cpu = CPU_new
  /\ cpu_ram = Vec(2048, {})
  /\ rom = None
  /\ \E chr_rom \in ChrRoms, mirroring \in {Horizontal, Vertical, FourScreen},
        ctrl \in IncrementValues, h \in AddrBytes :
       ppu = write_to_ppu_addr(
               write_to_ppu_addr(
                 write_to_ctrl(PPU_new(chr_rom, mirroring), ctrl), h), 0)
  /\ loc = "idle"
  /\ panicked = FALSE
  /\ last = LastInit
  /\ hist = HistInit

SpecMirroring == InitMirroring /\ [][NextData]_vars

(***************************************************************************)
(* The write latch shared by PPUSCROLL and PPUADDR: writes to the two      *)
(* registers and PPUSTATUS reads in any order, on a fresh PPU.             *)
(***************************************************************************)
NextLatch ==
  \/ WriteAddr
  \/ WriteScroll
  \/ ReadStatus

SpecLatch == InitPPU /\ [][NextLatch]_vars

(***************************************************************************)
(* The bus driven by its owner: a cartridge inserted, then reads, writes,  *)
(* ticks and NMI polls in any order.                                       *)
(***************************************************************************)
TheBus == [cpu_ram |-> cpu_ram, rom |-> rom, ppu |-> ppu]

InitBus ==
  /\ cpu = CPU_new
  /\ cpu_ram = Bus_new.cpu_ram
  /\ rom = Bus_new.rom
  /\ ppu = Bus_new.ppu
  /\ loc = "idle"
  /\ panicked = FALSE
  /\ last = LastInit
  /\ hist = HistInit

\* bus.insert_rom(r)
InsertRom ==
  /\ BusIdle
  /\ hist.bus_ops = 0
  /\ \E r \in Roms :
       /\ rom' = insert_rom(TheBus, r).rom
       /\ ppu' = insert_rom(TheBus, r).ppu
  /\ last' = [op |-> "insert_rom", arg |-> 0, ret |-> 0]
  /\ hist' = [hist EXCEPT !.ticks_total = 0, !.polls_after = 0]
  /\ UNCHANGED <<cpu, cpu_ram, loc, panicked>>

\* The bus left by a call that returned, or left behind by the panic that
\* ended it
BusOutcome(r) ==
  /\ cpu_ram' = r.obj.cpu_ram
  /\ rom' = r.obj.rom
  /\ ppu' = r.obj.ppu
  /\ panicked' = r.panic

\* bus.mem_read_u8(addr)
MemRead ==
  /\ BusIdle
  /\ hist.bus_ops < MaxBusOps
  /\ \E addr \in BusAddrs :
       \E r \in {Bus_mem_read_u8(TheBus, addr)} :
         /\ BusOutcome(r)
         /\ last' = [op |-> "mem_read_u8", arg |-> addr, ret |-> r.ret]
  /\ hist' = [hist EXCEPT !.bus_ops = hist.bus_ops + 1]
  /\ UNCHANGED <<cpu, loc>>

\* bus.mem_write_u8(addr, data)
MemWrite ==
  /\ BusIdle
  /\ hist.bus_ops < MaxBusOps
  /\ \E addr \in BusAddrs, data \in BusData :
       \E r \in {Bus_mem_write_u8(TheBus, addr, data)} :
         /\ BusOutcome(r)
         /\ last' = [op |-> "mem_write_u8", arg |-> addr, ret |-> data]
  /\ hist' = [hist EXCEPT !.bus_ops = hist.bus_ops + 1]
  /\ UNCHANGED <<cpu, loc>>

NextBus ==
  \/ InsertRom
  \/ MemRead
  \/ MemWrite
  \/ BusTick
  \/ PollNmi

SpecBus == InitBus /\ [][NextBus]_vars

(***************************************************************************)
(* The bus as memory: a cartridge inserted, then reads and writes in any   *)
(* order.                                                                  *)
(***************************************************************************)
NextMem ==
  \/ InsertRom
  \/ MemRead
  \/ MemWrite

SpecMem == InitBus /\ [][NextMem]_vars

(***************************************************************************)
(* The CPU with a program loaded, reset and run with a callback.  A call   *)
(* of run_with_callback is at its callback (loc = "callback"), at its      *)
(* opcode fetch (loc = "fetch"), or has returned or not begun (loc =       *)
(* "idle").                                                                *)
(***************************************************************************)
TheMachine(checks) == Machine(cpu, TheBus, checks)

InitRun ==
  \E program \in Programs :
    \E m \in {Call(Machine(CPU_new, Bus_new, TRUE), "load", <<program>>)} :
        /\ cpu = m.cpu
        /\ cpu_ram = m.bus.cpu_ram
        /\ rom = m.bus.rom
        /\ ppu = m.bus.ppu
        /\ loc = "idle"
        /\ panicked = m.panic
        /\ last = LastInit
        /\ hist = HistInit

\* The machine left by a call, or by the panic that ended it
Outcome(m) ==
  /\ cpu' = m.cpu
  /\ cpu_ram' = m.bus.cpu_ram
  /\ rom' = m.bus.rom
  /\ ppu' = m.bus.ppu
  /\ panicked' = (panicked \/ m.panic)

\* cpu.reset()
Reset ==
  /\ BusIdle
  /\ \E m \in {Call(TheMachine(TRUE), "reset", <<>>)} : Outcome(m)
  /\ last' = [op |-> "reset", arg |-> 0, ret |-> 0]
  /\ UNCHANGED <<loc, hist>>

\* cpu.run_with_callback(callback) is called: the first test of the loop
\* condition
Run ==
  /\ BusIdle
  /\ loc' = IF run_loop_condition(cpu) THEN "callback" ELSE "idle"
  /\ last' = [op |-> "run", arg |-> 0, ret |-> 0]
  /\ UNCHANGED <<cpu, cpu_ram, rom, ppu, panicked, hist>>

\* `callback(self)` of the loop body
RunCallback ==
  /\ loc = "callback"
  /\ ~panicked
  /\ hist.instructions < MaxInstructions
  /\ \E cb \in Callbacks : \E m \in {Call(TheMachine(TRUE), "callback", <<cb>>)} : Outcome(m)
  /\ loc' = "fetch"
  /\ last' = [op |-> "callback", arg |-> 0, ret |-> 0]
  /\ hist' = [hist EXCEPT !.callbacks = hist.callbacks + 1]

\* The rest of the loop body, and the test of the loop condition after it
RunExecute ==
  /\ loc = "fetch"
  /\ ~panicked
  /\ \E checks \in BOOLEAN :
       \E m \in {Call(TheMachine(checks), "fetch_execute", <<>>)} :
           /\ Outcome(m)
           /\ loc' = IF m.panic THEN loc
                     ELSE IF run_loop_condition(m.cpu) THEN "callback" ELSE "idle"
  /\ last' = [op |-> "execute", arg |-> Bus_mem_read_u8(TheBus, cpu.pc).ret,
              ret |-> decoded(Bus_mem_read_u8(TheBus, cpu.pc).ret)]
  /\ hist' = [hist EXCEPT !.instructions = hist.instructions + 1]

NextRun ==
  \/ Reset
  \/ Run
  \/ RunCallback
  \/ RunExecute

SpecRun == InitRun /\ [][NextRun]_vars

\* cpu.load(vec![b]) for every opcode byte b, and the run of it
InitDecode ==
  \E program \in DecodePrograms :
    \E m \in {Call(Machine(CPU_new, Bus_new, TRUE), "load", <<program>>)} :
        /\ cpu = m.cpu
        /\ cpu_ram = m.bus.cpu_ram
        /\ rom = m.bus.rom
        /\ ppu = m.bus.ppu
        /\ loc = "idle"
        /\ panicked = m.panic
        /\ last = LastInit
        /\ hist = HistInit

SpecDecode == InitDecode /\ [][NextRun]_vars

(***************************************************************************)
(* The handlers jsr and rts called on a CPU whose pc and stack pointer     *)
(* have been assigned, the operands written with mem_write_u16.  A history *)
(* variable, hist.calls, holds for each jsr not yet returned from the      *)
(* address after its operand and the stack pointer it was called with,     *)
(* the innermost call first.                                               *)
(***************************************************************************)
RECURSIVE write_operands(_, _)
write_operands(m, i) ==
  IF i > Len(JsrCalls) THEN m
  ELSE Bind(mem_write_u16(m, JsrCalls[i][1], JsrCalls[i][2]), LAMBDA w :
         write_operands(w, i + 1))

InitJsr ==
  \E pc \in JsrPcs, sp \in StackPointers :
    \E m \in {write_operands(Machine([CPU_new EXCEPT !.pc = pc, !.stack = sp],
                                     Bus_new, TRUE), 1)} :
        /\ cpu = m.cpu
        /\ cpu_ram = m.bus.cpu_ram
        /\ rom = m.bus.rom
        /\ ppu = m.bus.ppu
        /\ loc = "idle"
        /\ panicked = m.panic
        /\ last = LastInit
        /\ hist = HistInit

\* jsr(&mut cpu, AddressingMode::Absolute), through the entry 0x20
Jsr ==
  /\ BusIdle
  /\ hist.instructions < MaxInstructions
  /\ \E checks \in BOOLEAN :
       \E m \in {Call(TheMachine(checks), "execute", <<32>>)} :
           /\ Outcome(m)
           /\ hist' = [hist EXCEPT
                         !.instructions = @ + 1,
                         !.calls = IF m.panic THEN @
                                   ELSE <<[pc |-> (cpu.pc + 2) % U16,
                                           sp |-> cpu.stack]>> \o @]
  /\ last' = [op |-> "jsr", arg |-> cpu.pc, ret |-> 0]
  /\ UNCHANGED loc

\* rts(&mut cpu, AddressingMode::NoneAddressing), through the entry 0x60
Rts ==
  /\ BusIdle
  /\ hist.instructions < MaxInstructions
  /\ \E checks \in BOOLEAN :
       \E m \in {Call(TheMachine(checks), "execute", <<96>>)} :
           /\ Outcome(m)
           /\ hist' = [hist EXCEPT
                         !.instructions = @ + 1,
                         !.calls = IF m.panic \/ @ = <<>> THEN @ ELSE Tail(@)]
  /\ last' = [op |-> "rts", arg |-> Len(hist.calls), ret |-> 0]
  /\ UNCHANGED loc

NextJsr == Jsr \/ Rts

SpecJsr == InitJsr /\ [][NextJsr]_vars

(***************************************************************************)
(* stack_push_value_u8 and stack_pull_value_u8 called on a CPU whose stack *)
(* pointer has been assigned any byte.  A history variable, hist.pushed,   *)
(* holds the bytes pushed and not yet pulled, the last pushed first, each  *)
(* with the stack pointer it was pushed at.                                *)
(***************************************************************************)
InitStack ==
  \E sp \in 0..(U8 - 1) :
    /\ cpu = [CPU_new EXCEPT !.stack = sp]
    /\ cpu_ram = Bus_new.cpu_ram
    /\ rom = Bus_new.rom
    /\ ppu = Bus_new.ppu
    /\ loc = "idle"
    /\ panicked = FALSE
    /\ last = LastInit
    /\ hist = HistInit

\* cpu.stack_push_value_u8(value)
Push ==
  /\ BusIdle
  /\ hist.instructions < MaxStackOps
  /\ \E value \in PushBytes :
       \E m \in {Call(TheMachine(TRUE), "stack_push_value_u8", <<value>>)} :
           /\ Outcome(m)
           /\ hist' = [hist EXCEPT
                         !.instructions = @ + 1,
                         !.pushed = IF m.panic THEN @
                                    ELSE <<[value |-> value, sp |-> cpu.stack]>> \o @]
           /\ last' = [op |-> "push", arg |-> value, ret |-> 0]
  /\ UNCHANGED loc

\* cpu.stack_pull_value_u8()
Pull ==
  /\ BusIdle
  /\ hist.instructions < MaxStackOps
  /\ \E m \in {Call(TheMachine(TRUE), "stack_pull_value_u8", <<>>)} :
       /\ Outcome(m)
       /\ hist' = [hist EXCEPT
                     !.instructions = @ + 1,
                     !.pushed = IF m.panic \/ @ = <<>> THEN @ ELSE Tail(@)]
       /\ last' = [op |-> "pull", arg |-> Len(hist.pushed), ret |-> m.ret]
  /\ UNCHANGED loc

NextStack == Push \/ Pull

SpecStack == InitStack /\ [][NextStack]_vars

(***************************************************************************)
(* Operand fetches and 16-bit accesses of a CPU reset on a cartridge whose *)
(* reset vector is at or near the end of the address space, in a build     *)
(* with overflow checks and in one without.                                *)
(***************************************************************************)
InitWrap ==
  \E pc \in WrapPcs :
    \E m \in {Call(Machine(CPU_new, insert_rom(Bus_new, Rom_from_pc(pc)), TRUE),
                   "reset", <<>>)} :
        /\ cpu = m.cpu
        /\ cpu_ram = m.bus.cpu_ram
        /\ rom = m.bus.rom
        /\ ppu = m.bus.ppu
        /\ loc = "idle"
        /\ panicked = m.panic
        /\ last = LastInit
        /\ hist = HistInit

WrapIdle == BusIdle /\ hist.instructions < MaxWrapOps

\* What a call of the method f with args leaves, in either build
WrapCall(f, args) ==
  /\ WrapIdle
  /\ \E checks \in BOOLEAN :
       \E m \in {Call(TheMachine(checks), f, args)} :
           /\ Outcome(m)
           /\ last' = [op |-> f, arg |-> IF args = <<>> THEN cpu.pc ELSE args[1],
                       ret |-> m.ret]
  /\ hist' = [hist EXCEPT !.instructions = @ + 1]
  /\ UNCHANGED loc

\* cpu.mem_read_pc_u8()
FetchU8 == WrapCall("mem_read_pc_u8", <<>>)

\* cpu.mem_read_pc_u16()
FetchU16 == WrapCall("mem_read_pc_u16", <<>>)

\* cpu.mem_read_u16(addr)
ReadU16 == \E addr \in WrapAddrs : WrapCall("mem_read_u16", <<addr>>)

\* cpu.mem_write_u16(addr, data)
WriteU16 ==
  \E addr \in WrapAddrs, data \in WrapWords : WrapCall("mem_write_u16", <<addr, data>>)

NextWrap == FetchU8 \/ FetchU16 \/ ReadU16 \/ WriteU16

SpecWrap == InitWrap /\ [][NextWrap]_vars

(***************************************************************************)
(* Rom::new called on images laid out as create_rom_data lays them out,    *)
(* whole or cut short, with a right or a wrong tag, once in a behaviour.   *)
(* last.arg is the image's description and last.ret what Rom::new made of  *)
(* it.                                                                     *)
(***************************************************************************)
RomNew ==
  /\ BusIdle
  /\ last.op = "new"
  /\ \E prg \in PrgPages, chr \in ChrPages, c1 \in ControlBytes, c2 \in ControlBytes,
        with_trainer \in BOOLEAN, cut \in ImageCuts \cup {-1, -2}, tag0 \in TagBytes :
       \E whole \in {create_rom_data(prg, chr, c1, c2, with_trainer)} :
         \E len \in {IF cut = -1 THEN whole.len
                      ELSE IF cut = -2 THEN whole.len - 1 ELSE cut} :
           \E result \in {Rom_new(Truncated(whole, len, tag0))} :
             /\ last' = [op |-> "Rom::new",
                         arg |-> [prg |-> prg, chr |-> chr, byte6 |-> c1, byte7 |-> c2,
                                  with_trainer |-> with_trainer,
                                  missing |-> whole.len - len, tag0 |-> tag0],
                         ret |-> result]
             /\ panicked' = result.panic
  /\ UNCHANGED <<cpu, cpu_ram, rom, ppu, loc, hist>>

SpecRom == InitBus /\ [][RomNew]_vars

(***************************************************************************)
(* Instruction handlers called through their table entries on a CPU whose  *)
(* registers have been assigned and whose first RAM cells, from pc = 0 on, *)
(* all hold the operand byte, so that every immediate operand is that      *)
(* byte.  last.arg is the opcode and last.ret the byte at pc before the    *)
(* call; hist.adc holds the accumulator and the carry the last ADC began   *)
(* with and the number of SBC calls since, while only CLC, SEC and SBC     *)
(* have been called since.                                                 *)
(***************************************************************************)
\* Cells holding the operand byte
OperandCells == 4

RECURSIVE write_cells(_, _, _)
write_cells(m, value, i) ==
  IF i >= OperandCells THEN m
  ELSE Bind(CPU_mem_write_u8(m, i, value), LAMBDA w : write_cells(w, value, i + 1))

\* CPU::new(), the assignments of its registers, and the writes of the
\* operand
InitRegs(as, xs, ys, statuses, operands) ==
  \E a \in as, x \in xs, y \in ys, status \in statuses, operand \in operands :
    \E m \in {write_cells(Machine([CPU_new EXCEPT !.reg_a = a, !.reg_x = x, !.reg_y = y,
                                                   !.status = status],
                                   Bus_new, TRUE), operand, 0)} :
        /\ cpu = m.cpu
        /\ cpu_ram = m.bus.cpu_ram
        /\ rom = m.bus.rom
        /\ ppu = m.bus.ppu
        /\ loc = "idle"
        /\ panicked = m.panic
        /\ last = LastInit
        /\ hist = HistInit

\* `handler(&mut cpu, mode)` for the handler and mode of one of the entries
Handler(opcodes, max) ==
  /\ BusIdle
  /\ hist.instructions < max
  /\ \E code \in opcodes, checks \in BOOLEAN :
       \E m \in {Call(TheMachine(checks), "execute", <<code>>)} :
           /\ Outcome(m)
           /\ last' = [op |-> "handler", arg |-> code,
                       ret |-> Bus_mem_read_u8(TheBus, cpu.pc).ret]
  /\ hist' = [hist EXCEPT !.instructions = @ + 1,
                          !.adc = IF last'.arg = 105
                                  THEN <<[a |-> cpu.reg_a,
                                          c |-> IF get_flag(cpu, Carry) THEN 1 ELSE 0,
                                          sbc |-> 0]>>
                                  ELSE IF last'.arg \in {24, 56} \/ @ = <<>> THEN @
                                  ELSE IF last'.arg = 233
                                  THEN <<[@[1] EXCEPT !.sbc = @ + 1]>>
                                  ELSE <<>>]
  /\ UNCHANGED loc

InitCompare ==
  InitRegs(CompareAs, CompareXs, CompareYs, CompareStatuses, CompareOperands)

Compare == Handler(CompareOpcodes, MaxCompareOps)

SpecCompare == InitCompare /\ [][Compare]_vars

InitArithmetic ==
  InitRegs(ArithmeticBytes, {0}, {0}, ArithmeticStatuses, ArithmeticBytes)

Arithmetic == Handler(ArithmeticOpcodes, MaxArithmeticOps)

SpecArithmetic == InitArithmetic /\ [][Arithmetic]_vars

InitArr == InitRegs(ArrAs, {0}, {0}, ArrStatuses, ArrOperands)

Arr == Handler(ArrOpcodes, MaxCompareOps)

SpecArr == InitArr /\ [][Arr]_vars

\* CPU::new(), the assignments of cpu.stack and cpu.status, and the writes of
\* the status and the return address above the stack pointer
InitRti ==
  \E stack \in RtiStacks, status \in RtiStatuses,
     value \in RtiStackedStatuses, pc \in RtiStackedPcs :
    \E m \in {Bind(CPU_mem_write_u8(Machine([CPU_new EXCEPT !.stack = stack,
                                                            !.status = status],
                                            Bus_new, TRUE),
                                    256 + ((stack + 1) % U8), value), LAMBDA s :
                Bind(CPU_mem_write_u8(s, 256 + ((stack + 2) % U8), pc % 256), LAMBDA lo :
                  CPU_mem_write_u8(lo, 256 + ((stack + 3) % U8), pc \div 256)))} :
        /\ cpu = m.cpu
        /\ cpu_ram = m.bus.cpu_ram
        /\ rom = m.bus.rom
        /\ ppu = m.bus.ppu
        /\ loc = "idle"
        /\ panicked = m.panic
        /\ last = LastInit
        /\ hist = HistInit

\* One call of rti
Rti == last.op = "new" /\ Handler(RtiOpcodes, MaxCompareOps)

SpecRti == InitRti /\ [][Rti]_vars

\* cpu.mem_write_u8(addr, value) for each pair of cells, from the i-th
RECURSIVE write_pairs(_, _, _)
write_pairs(m, cells, i) ==
  IF i > Len(cells) THEN m
  ELSE Bind(CPU_mem_write_u8(m, cells[i][1], cells[i][2]), LAMBDA w :
         write_pairs(w, cells, i + 1))

\* CPU::new(), the assignments of pc and the registers, the write of the
\* operand at pc and the writes of the pointer bytes
InitPointer ==
  \E a \in PointerAs, x \in PointerXs, y \in PointerYs, operand \in PointerOperands :
    \E m \in {write_pairs(mem_write_u16(Machine([CPU_new EXCEPT !.pc = PointerPc,
                                                                !.reg_a = a, !.reg_x = x,
                                                                !.reg_y = y],
                                                Bus_new, TRUE),
                                        PointerPc, operand),
                           PointerCells, 1)} :
        /\ cpu = m.cpu
        /\ cpu_ram = m.bus.cpu_ram
        /\ rom = m.bus.rom
        /\ ppu = m.bus.ppu
        /\ loc = "idle"
        /\ panicked = m.panic
        /\ last = LastInit
        /\ hist = HistInit

\* One call of a handler that resolves a pointer
Pointer == last.op = "new" /\ Handler(PointerOpcodes, MaxCompareOps)

SpecPointer == InitPointer /\ [][Pointer]_vars

\* CPU::new() on a cartridge made of a PRG image, the assignments of pc, the
\* registers and the status, and the operand: written at pc in the RAM, or
\* a byte of the PRG image when pc is in the cartridge
InitBranch ==
  \E pc \in BranchPcs, status \in BranchStatuses, operand \in BranchOperands :
    \E m \in {CPU_mem_write_u8(
                 Machine([CPU_new EXCEPT !.pc = pc, !.status = status,
                                         !.reg_a = 66, !.reg_x = 85, !.reg_y = 102],
                         insert_rom(Bus_new,
                                    Rom_from_prg(Vec(2 * PRG_ROM_PAGE_SIZE,
                                                     IF pc >= PRG_START
                                                     THEN ArrSet({}, pc - PRG_START, operand)
                                                     ELSE {}))),
                         TRUE),
                 IF pc >= PRG_START THEN 0 ELSE pc, operand)} :
        /\ cpu = m.cpu
        /\ cpu_ram = m.bus.cpu_ram
        /\ rom = m.bus.rom
        /\ ppu = m.bus.ppu
        /\ loc = "idle"
        /\ panicked = m.panic
        /\ last = LastInit
        /\ hist = HistInit

\* One call of a branch handler
Branch == last.op = "new" /\ Handler(BranchOpcodes, MaxCompareOps)

SpecBranch == InitBranch /\ [][Branch]_vars

\* CPU::new(), the assignments of pc, the registers and the status, the
\* write of the operand at pc and the writes of the pointers and the value
InitRmw ==
  \E a \in RmwAs, x \in RmwXs, y \in RmwYs, status \in RmwStatuses,
     value \in RmwValues, indirect \in BOOLEAN, operand \in RmwOperands :
    \E m \in {write_pairs(mem_write_u16(Machine([CPU_new EXCEPT !.pc = PointerPc,
                                                                !.reg_a = a, !.reg_x = x,
                                                                !.reg_y = y,
                                                                !.status = status],
                                                Bus_new, TRUE),
                                        PointerPc, operand),
                           RmwCells(value, indirect), 1)} :
        /\ cpu = m.cpu
        /\ cpu_ram = m.bus.cpu_ram
        /\ rom = m.bus.rom
        /\ ppu = m.bus.ppu
        /\ loc = "idle"
        /\ panicked = m.panic
        /\ last = LastInit
        /\ hist = HistInit

\* The entries of the six read-modify-write combinations
RmwOpcodes ==
  {code \in PopulatedOpcodes :
     OP_from(code).op \in {"dcp", "isc", "slo", "rla", "sre", "rra"}}

\* One call of the handler of a read-modify-write combination
Rmw == last.op = "new" /\ Handler(RmwOpcodes, MaxCompareOps)

SpecRmw == InitRmw /\ [][Rmw]_vars

InitFlags == InitRegs(FlagAs, FlagXs, FlagYs, FlagStatuses, FlagOperands)

\* One call of the handler of any populated entry
AnyHandler == last.op = "new" /\ Handler(PopulatedOpcodes, MaxCompareOps)

SpecFlags == InitFlags /\ [][AnyHandler]_vars

(***************************************************************************)
(* PPU timing and NMI claims.                                              *)
(***************************************************************************)
InVBlank(p) == Contains(p.status, VBLANK)

\* C5: with NMI generation enabled and the PPU started at (0, 0), once ticks
\* totalling 241 * 341 PPU cycles have been applied, in any split, the VBlank
\* bit of PPUSTATUS is set; the first poll_nmi_status then returns true, and
\* every further poll made before the next frame's VBlank returns false.
C5_VBlankNmiPolledOnce ==
  /\ [](hist.ticks_total = VBlankAt => InVBlank(ppu))
  /\ [][last'.op = "poll_nmi_status" =>
          /\ ((hist.ticks_total = VBlankAt /\ hist.polls_after = 0)
                => last'.ret = 1)
          /\ ((hist.polls_after >= 1 /\ hist.ticks_total >= VBlankAt
                 /\ hist.ticks_total < VBlankAt + FrameCycles)
                => last'.ret = 0)]_vars

\* C5 witness: 241 * 341 cycles were applied in several tick calls and two
\* polls were made there, the second returning false.
C5_Witness ==
  /\ hist.ticks_total = VBlankAt
  /\ hist.nticks >= 2
  /\ hist.polls_after = 2
  /\ last.op = "poll_nmi_status"
  /\ last.ret = 0
  /\ InVBlank(ppu)

\* C6 (as claimed): a PPUCTRL write sets nmi_pending exactly when it is a
\* rising edge of the generate-NMI bit while VBlank is set, and the next
\* poll then returns true; any other write leaves nmi_pending as it was.
C6_CtrlRisingEdgeSetsNmi ==
  [][last'.op = "write_to_ctrl" =>
       IF /\ ~Contains(ppu.ctrl, GENERATE_NMI)
          /\ Contains(last'.arg, GENERATE_NMI)
          /\ InVBlank(ppu)
       THEN ppu'.nmi_pending /\ poll_nmi_status(ppu').ret
       ELSE ppu'.nmi_pending = ppu.nmi_pending]_vars

C8_FramePeriod ==
  hist.ticks_total = FrameCycles =>
    ppu.cycle = 0 /\ ppu.scanline = 0 /\ ~InVBlank(ppu)

\* C8 witness: a frame's worth of cycles was applied in several ticks.
C8_Witness ==
  /\ hist.ticks_total = FrameCycles
  /\ hist.nticks >= 2
  /\ ppu.cycle = 0
  /\ ppu.scanline = 0

\* C9: after every tick call that returns, cycle is in 0..340 and scanline
\* in 0..261.
C9_CountersInRange ==
  (ppu # None /\ ~panicked) =>
    /\ ppu.cycle \in 0..(CyclesPerScanline - 1)
    /\ ppu.scanline \in 0..(ScanlinesPerFrame - 1)

\* C9 witness: a tick has left the PPU on the last cycle of the last
\* scanline of the frame.
C9_Witness ==
  /\ last.op = "tick"
  /\ ~panicked
  /\ ppu.cycle = CyclesPerScanline - 1
  /\ ppu.scanline = ScanlinesPerFrame - 1

\* C10 (as claimed): with a cartridge inserted, a bus read of $2002 or of
\* one of its mirrors in $2000-$3FFF does not panic: it returns the
\* PPUSTATUS bits, clears the w latch and leaves the VBlank bit as it was.
C10_StatusReadThroughBus ==
  [][(/\ last'.op = "mem_read_u8"
      /\ rom # None
      /\ last'.arg \in PPU_START..PPU_END
      /\ last'.arg % 8 = 2)
       => /\ ~panicked'
          /\ last'.ret = ppu.status
          /\ ~ppu'.w_reg
          /\ ppu'.status = ppu.status]_vars

(***************************************************************************)
(* Run loop, reset and Break claims.                                       *)
(***************************************************************************)
\* C1: in run_with_callback the callback is invoked exactly once before each
\* opcode fetch and never inside an instruction: callbacks and instructions
\* alternate strictly, starting with a callback; as soon as an instruction
\* leaves the Break flag set the call returns, with no further callback or
\* fetch; and a call made with Break already set does neither.
C1_CallbackBeforeEachFetch ==
  /\ [](~panicked =>
          hist.callbacks = hist.instructions + (IF loc = "fetch" THEN 1 ELSE 0))
  /\ [][hist'.instructions # hist.instructions
          => last.op = "callback" /\ hist'.instructions = hist.instructions + 1]_vars
  /\ [][hist'.callbacks # hist.callbacks
          => /\ last.op \in {"run", "execute"}
             /\ ~get_flag(cpu, Break)
             /\ hist'.callbacks = hist.callbacks + 1]_vars
  /\ [][(last'.op = "execute" /\ ~panicked' /\ get_flag(cpu', Break))
          => loc' = "idle"]_vars
  /\ [][(last'.op = "run" /\ get_flag(cpu, Break))
          => loc' = "idle" /\ UNCHANGED <<cpu, cpu_ram, ppu, hist>>]_vars
  /\ [][loc = "idle" => UNCHANGED hist]_vars

\* C1 witness: a call of run_with_callback has returned after several
\* instructions, the last of which left Break set.
C1_Witness ==
  /\ loc = "idle"
  /\ last.op = "execute"
  /\ ~panicked
  /\ get_flag(cpu, Break)
  /\ hist.instructions >= 3
  /\ hist.callbacks = hist.instructions

\* C2 (as claimed): after reset(), from any prior CPU state, A = X = Y = 0,
\* SP = 0xFD, P = 0x24 and PC is the little-endian 16-bit value read from
\* $FFFC/$FFFD.
C2_ResetRegisters ==
  [][(last'.op = "reset" /\ ~panicked')
       => /\ cpu'.reg_a = 0
          /\ cpu'.reg_x = 0
          /\ cpu'.reg_y = 0
          /\ cpu'.stack = 253
          /\ cpu'.status = 36
          /\ cpu'.pc = Bus_mem_read_u8(TheBus, 65532).ret
                       + (256 * Bus_mem_read_u8(TheBus, 65533).ret)]_vars

\* C3 (as claimed): no instruction other than BRK changes bit 4 of P from 0
\* to 1; PLP and RTI pulling a stack byte whose bit 4 is 1 do not.
C3_OnlyBrkSetsBreak ==
  [][(last'.op = "execute" /\ ~panicked' /\ ~get_flag(cpu, Break) /\ get_flag(cpu', Break))
       => OP_from(last'.arg).op = "brk"]_vars

\* C4 (as claimed): while run executes, Bus::tick is called exactly once per
\* executed instruction, so that every instruction moves the PPU's
\* (scanline, cycle) position forward.
C4_TickPerInstruction ==
  [][(last'.op = "execute" /\ ~panicked')
       => /\ hist'.nticks = hist.nticks + 1
          /\ <<ppu'.scanline, ppu'.cycle>> # <<ppu.scanline, ppu.cycle>>]_vars


(***************************************************************************)
(* PPU register accesses through the bus and on the PPU.                   *)
(***************************************************************************)
\* The register slots the register table gives a write behaviour: PPUCTRL,
\* PPUMASK, OAMADDR, OAMDATA, PPUSCROLL, PPUADDR, PPUDATA
WriteSlots == {8192, 8193, 8195, 8196, 8197, 8198, 8199}

\* C11 (as claimed): with a cartridge inserted, a bus write to a register
\* slot that has a write behaviour, or to a mirror of it, does not panic and
\* leaves the PPU as the register's write operation leaves it.
C11_RegisterWritesDispatched ==
  [][(/\ last'.op = "mem_write_u8"
      /\ rom # None
      /\ last'.arg \in PPU_START..PPU_END
      /\ (8192 + (last'.arg % 8)) \in WriteSlots)
     => /\ ~panicked'
        /\ (last'.arg % 8 = 0 => ppu' = write_to_ctrl(ppu, last'.ret))
        /\ (last'.arg % 8 = 4 => ppu' = write_to_oam_data(ppu, last'.ret))
        /\ (last'.arg % 8 = 5 => ppu' = write_to_scroll(ppu, last'.ret))
        /\ (last'.arg % 8 = 6 => ppu' = write_to_ppu_addr(ppu, last'.ret))
        /\ (last'.arg % 8 = 7 => ppu' = write_to_data(ppu, last'.ret).obj)]_vars


\* C12: PPUSCROLL and PPUADDR share the write latch w.  A write to either
\* register toggles w; with w clear the write is taken as the first (high)
\* byte of its register, with w set, whichever of the two registers set it,
\* as the second (low) byte; and a PPUSTATUS read leaves w clear.
C12_SharedWriteLatch ==
  /\ [][last'.op \in {"write_to_scroll", "write_to_ppu_addr"}
          => ppu'.w_reg = ~ppu.w_reg]_vars
  /\ [][last'.op = "write_to_ppu_addr"
          => /\ ppu'.scroll = ppu.scroll
             /\ IF ppu.w_reg
                THEN ppu'.ppu_addr = <<ppu.ppu_addr[1], last'.arg>>
                ELSE ppu'.ppu_addr = <<last'.arg % 64, ppu.ppu_addr[2]>>]_vars
  /\ [][last'.op = "write_to_scroll"
          => /\ ppu'.ppu_addr = ppu.ppu_addr
             /\ IF ppu.w_reg
                THEN ppu'.scroll = <<ppu.scroll[1], last'.arg>>
                ELSE ppu'.scroll = <<last'.arg, ppu.scroll[2]>>]_vars
  /\ [][last'.op = "read_status" => ~ppu'.w_reg]_vars

\* C12 witness: a single PPUSCROLL write, then a PPUADDR write that was
\* taken as the low byte of the address.
C12_Witness ==
  /\ last.op = "write_to_ppu_addr"
  /\ ~ppu.w_reg
  /\ ppu.scroll = <<5, 0>>
  /\ ppu.ppu_addr = <<0, 36>>


\* C13: the PPU address never exceeds 0x3FFF; two PPUADDR writes h then l,
\* the first made with w clear, leave it at ((h << 8) | l) & 0x3FFF; and a
\* PPUDATA access advances it by 1, or by 32 when bit 2 of PPUCTRL is set,
\* modulo 0x4000.
C13_AddressWithin14Bits ==
  /\ [](ppu # None => PPUADDRESS_get(ppu.ppu_addr) <= 16383)
  /\ [][(/\ last.op = "write_to_ppu_addr" /\ ppu.w_reg
          /\ last'.op = "write_to_ppu_addr")
         => PPUADDRESS_get(ppu'.ppu_addr) = ((last.arg * 256) + last'.arg) % 16384]_vars
  /\ [][last'.op \in {"write_to_data", "read_data"}
         => PPUADDRESS_get(ppu'.ppu_addr) =
              (PPUADDRESS_get(ppu.ppu_addr)
                 + (IF Contains(ppu.ctrl, 4) THEN 32 ELSE 1)) % 16384]_vars

\* C13 witness: the writes 0xFF then 0xFF, the first with w clear, have left
\* the address at 0x3FFF.
C13_Witness ==
  /\ last.op = "write_to_ppu_addr"
  /\ last.arg = 255
  /\ ~ppu.w_reg
  /\ ppu.ppu_addr = <<63, 255>>
  /\ hist.bus_ops = 2


\* C14 (as claimed): a PPUDATA read with the PPU address below $3F00 does
\* not panic, returns the previous contents of the read buffer and refills
\* the buffer from the addressed CHR or VRAM byte; a read with the address
\* in $3F00-$3FFF returns palette[(addr - $3F00) mod 32] at once.
C14_BufferedDataRead ==
  [][last'.op = "read_data"
     => LET addr == PPUADDRESS_get(ppu.ppu_addr)
        IN  /\ ~panicked'
            /\ (addr < 16128 => last'.ret = ppu.ppu_data_buf)
            /\ (addr < 8192 => ppu'.ppu_data_buf = VecGet(ppu.chr_rom, addr))
            /\ (addr >= 8192 /\ addr < 16128
                  => ppu'.ppu_data_buf = VecGet(ppu.vram, mirror_vram_addr(ppu, addr)))
            /\ (addr >= 16128
                  => last'.ret = VecGet(ppu.palette_table, (addr - 16128) % 32))]_vars


\* The VRAM cell the mirroring table gives a nametable address: the offset
\* within the 1 KiB nametable, in the first KiB of VRAM for the nametables
\* 0 and 1 (Horizontal) or 0 and 2 (Vertical), in the second otherwise
NametableCell(mirroring, addr) ==
  LET offset == addr % 1024
      name_table == ((addr - 8192) \div 1024) % 4
  IN  IF mirroring = Horizontal
      THEN (IF name_table \in {0, 1} THEN offset ELSE 1024 + offset)
      ELSE (IF name_table \in {0, 2} THEN offset ELSE 1024 + offset)

\* C15: under Horizontal and Vertical mirroring the nametable fold maps
\* every address of $2000-$2FFF to the VRAM cell of the mirroring table,
\* and a byte written through a nametable address is returned by the second
\* of two consecutive reads started at that address or at its mirror.
C15_NametableMirroring ==
  /\ [](last.op = "mirror_vram_addr"
          => last.ret = NametableCell(ppu.mirroring, last.arg))
  /\ [][(/\ last.op = "read_data" /\ last'.op = "read_data"
          /\ hist.written # <<>>)
         => LET step == IF Contains(ppu.ctrl, 4) THEN 32 ELSE 1
                first_at == (PPUADDRESS_get(ppu.ppu_addr) + 16384 - step) % 16384
                written_at == hist.written[1]
            IN  (/\ first_at \in NametableAddrs
                 /\ written_at \in NametableAddrs
                 /\ NametableCell(ppu.mirroring, first_at)
                      = NametableCell(ppu.mirroring, written_at))
                => ~panicked' /\ last'.ret = hist.written[2]]_vars

\* C15 witness: under Horizontal mirroring a byte written through $2000 has
\* been returned by the second of two reads started at its mirror $2400.
C15_Witness ==
  /\ last.op = "read_data"
  /\ last.ret = 17
  /\ hist.written = <<8192, 17>>
  /\ ppu.mirroring = Horizontal
  /\ ppu.ppu_addr = <<36, 2>>


(***************************************************************************)
(* RAM and PRG ROM through the bus.                                        *)
(***************************************************************************)
\* RAM cells compared across the four mirrors: the first two and the last
RamProbes == {0, 1, 2047}

\* The byte a bus read at addr returns in the current state
read8(addr) == Bus_mem_read_u8(TheBus, addr).ret

\* C16: every RAM cell reads the same through its four mirrors; a read of
\* $0000-$1FFF returns the cell at addr & $07FF and changes nothing; a write
\* of v to an address of $0000-$1FFF is read back as v from that address
\* and from the four mirrors of its cell, and changes no other RAM cell
\* (a cell absent from the data of both arrays holds 0 in both).
C16_RamMirrorRoundTrip ==
  /\ [](\A a \in RamProbes, k \in 0..3 : read8(a + (k * 2048)) = read8(a))
  /\ [][(last'.op = "mem_read_u8" /\ last'.arg <= RAM_END)
         => /\ ~panicked'
            /\ last'.ret = VecGet(cpu_ram, last'.arg % 2048)
            /\ UNCHANGED <<cpu_ram, rom, ppu>>]_vars
  /\ [][(last'.op = "mem_write_u8" /\ last'.arg <= RAM_END)
         => /\ ~panicked'
            /\ Bus_mem_read_u8(TheBus', last'.arg).ret = last'.ret
            /\ \A k \in 0..3 :
                 Bus_mem_read_u8(TheBus', (last'.arg % 2048) + (k * 2048)).ret
                   = last'.ret
            /\ cpu_ram'.len = cpu_ram.len
            /\ \A c \in {q[1] : q \in cpu_ram.data \cup cpu_ram'.data}
                          \ {last'.arg % 2048} :
                 VecGet(cpu_ram', c) = VecGet(cpu_ram, c)
            /\ UNCHANGED <<rom, ppu>>]_vars

\* C16 witness: the first RAM cell holds a byte written to it, and the byte
\* has been read back through the mirror of the cell at $0800.
C16_Witness ==
  /\ last.op = "mem_read_u8"
  /\ last.arg = 2048
  /\ last.ret = 63
  /\ VecGet(cpu_ram, 0) = 63
  /\ VecGet(cpu_ram, 2047) = 0

\* C17: with a cartridge inserted, a bus read at an address of $8000-$FFFF
\* returns the PRG byte at offset addr - $8000, or for a 16 KiB image and an
\* address of $C000-$FFFF the byte at offset addr - $C000, and changes
\* nothing.
C17_PrgRead ==
  [][(last'.op = "mem_read_u8" /\ rom # None /\ last'.arg >= PRG_START)
     => /\ ~panicked'
        /\ last'.ret =
             VecGet(rom.prg_rom,
                    IF rom.prg_rom.len = 16384 /\ last'.arg >= 49152
                    THEN last'.arg - 49152
                    ELSE last'.arg - 32768)
        /\ UNCHANGED <<cpu_ram, rom, ppu>>]_vars

\* C17 witness: the low byte of the reset vector of a 16 KiB image has been
\* read at $FFFC from PRG offset $3FFC.
C17_Witness ==
  /\ last.op = "mem_read_u8"
  /\ last.arg = 65532
  /\ rom # None
  /\ rom.prg_rom.len = 16384
  /\ last.ret = 52
  /\ ~panicked

\* C18: a bus write to an address of $8000-$FFFF panics, with or without a
\* cartridge, and leaves RAM, the cartridge and the PPU as they were.
C18_RomWriteFatal ==
  [][(last'.op = "mem_write_u8" /\ last'.arg >= PRG_START)
     => panicked' /\ UNCHANGED <<cpu_ram, rom, ppu>>]_vars

\* C18 witness: a write to the reset vector of an inserted cartridge has
\* panicked.
C18_Witness ==
  /\ last.op = "mem_write_u8"
  /\ last.arg = 65532
  /\ rom # None
  /\ panicked

\* C19: the opcode fetch of a byte whose entry of the instruction table is
\* empty ends in a panic that leaves the registers other than the program
\* counter, the RAM, the cartridge and the PPU as they were before the fetch,
\* the program counter standing after the byte; the fetch of any other byte
\* b decodes to the entry whose code field is b.
C19_DecodeOpcode ==
  [][last'.op = "execute" =>
       IF OP_from(last'.arg) = None
       THEN /\ panicked'
            /\ cpu' = [cpu EXCEPT !.pc = (cpu.pc + 1) % U16]
            /\ UNCHANGED <<cpu_ram, rom, ppu>>
       ELSE last'.ret = last'.arg]_vars

\* C19 witness: the fetch of the byte 0x02, whose entry is empty, has
\* panicked, the program counter standing after the byte
C19_Witness ==
  /\ last.op = "execute"
  /\ last.arg = 2
  /\ panicked
  /\ cpu.pc = 1

\* C20: jsr writes the high byte of the address of its last operand byte
\* to the stack cell at SP and the low byte to the cell below it (SP - 1
\* wrapped to a byte), lowers SP by two (wrapped) and sets PC to its operand;
\* rts, when a jsr has not yet been returned from, sets PC to the address
\* after the operand of the innermost such jsr and SP to the value that jsr
\* was called with, for every SP, those from which the pushes wrap included.
C20_JsrRtsRoundTrip ==
  [][/\ (last'.op = "jsr" /\ ~panicked') =>
          /\ VecGet(cpu_ram', 256 + cpu.stack) = ((cpu.pc + 1) % U16) \div 256
          /\ VecGet(cpu_ram', 256 + ((cpu.stack + 255) % 256)) = ((cpu.pc + 1) % U16) % 256
          /\ cpu'.stack = (cpu.stack + 254) % 256
          /\ cpu'.pc = read8(cpu.pc) + (256 * read8((cpu.pc + 1) % U16))
     /\ (last'.op = "rts" /\ ~panicked' /\ hist.calls # <<>>) =>
          /\ cpu'.pc = Head(hist.calls).pc
          /\ cpu'.stack = Head(hist.calls).sp
          /\ UNCHANGED cpu_ram]_vars

\* C20 witness: the inner of two nested calls has been returned from, the
\* outer one, called with SP = 0x01 so that its pushes wrapped from $0100 to
\* $01FF, not yet
C20_Witness ==
  /\ last.op = "rts"
  /\ last.arg = 2
  /\ ~panicked
  /\ Len(hist.calls) = 1
  /\ hist.calls[1].sp = 1
  /\ cpu.stack = 255

\* C21: a push stores its byte in the cell $0100 | SP, changes no other
\* RAM cell and lowers SP by one modulo 256; a pull raises SP by one modulo
\* 256, returns the byte of the cell $0100 | SP at the raised SP and changes
\* no RAM cell; a pull made while pushed bytes are outstanding returns the
\* byte pushed last among them and leaves SP as it was before that push.
C21_StackDiscipline ==
  [][/\ (last'.op = "push" /\ ~panicked') =>
          /\ cpu_ram' = VecSet(cpu_ram, 256 + cpu.stack, last'.arg)
          /\ cpu' = [cpu EXCEPT !.stack = (cpu.stack + 255) % 256]
     /\ (last'.op = "pull" /\ ~panicked') =>
          /\ cpu' = [cpu EXCEPT !.stack = (cpu.stack + 1) % 256]
          /\ last'.ret = VecGet(cpu_ram, 256 + cpu'.stack)
          /\ UNCHANGED cpu_ram
          /\ hist.pushed # <<>> =>
                /\ last'.ret = Head(hist.pushed).value
                /\ cpu'.stack = Head(hist.pushed).sp]_vars

\* C21 witness: three bytes were pushed from SP = 0x01, the pointer wrapping
\* from $00 to $FF, and two of them have been pulled again
C21_Witness ==
  /\ last.op = "pull"
  /\ last.arg = 2
  /\ last.ret = 51
  /\ ~panicked
  /\ Len(hist.pushed) = 1
  /\ hist.pushed[1] = [value |-> 17, sp |-> 1]
  /\ cpu.stack = 0

\* The 16-bit value of the bytes at addr and at addr + 1 wrapped to 16 bits
read16(addr) == read8(addr) + (256 * read8((addr + 1) % U16))

\* C22 (as claimed): a one-byte fetch leaves PC one further and a two-byte
\* fetch two further, modulo 2^16, and returns the bytes at PC and, for two
\* bytes, at PC + 1 modulo 2^16; a 16-bit read at addr returns the bytes at
\* addr and at addr + 1 modulo 2^16; a 16-bit write at addr whose low byte
\* is writable stores its high byte at addr + 1 modulo 2^16; none of them
\* fails.
C22_AddressArithmeticWraps ==
  [][/\ last'.op = "mem_read_pc_u8" =>
          /\ ~panicked'
          /\ cpu'.pc = (cpu.pc + 1) % U16
          /\ last'.ret = read8(cpu.pc)
     /\ last'.op = "mem_read_pc_u16" =>
          /\ ~panicked'
          /\ cpu'.pc = (cpu.pc + 2) % U16
          /\ last'.ret = read16(cpu.pc)
     /\ last'.op = "mem_read_u16" =>
          /\ ~panicked'
          /\ last'.ret = read16(last'.arg)
     /\ (last'.op = "mem_write_u16" /\ last'.arg < PRG_START) =>
          /\ ~panicked'
          /\ \A addr \in WrapAddrs :
                addr = last'.arg => read16(addr)' = 4660]_vars

\* C23 (as claimed): an image with the right tag, whole, with the 512
\* trainer bytes present exactly when bit 2 of byte 6 is set and the low
\* two bits of byte 7 clear, is accepted whatever bits 2 and 3 of byte 6
\* are; its mirroring is four-screen when bit 3 of byte 6 is set, else
\* vertical when bit 0 of byte 6 is set, else horizontal; its mapper is
\* (byte 7 high nibble) << 4 | (byte 6 high nibble); its PRG data is the
\* data after the header and the trainer.
C23_HeaderFlags ==
  (/\ last.op = "Rom::new"
   /\ last.arg.tag0 = 78
   /\ last.arg.missing = 0
   /\ last.arg.with_trainer = (BitAnd(last.arg.byte6, 4) # 0)
   /\ BitAnd(last.arg.byte7, 3) = 0)
    => /\ last.ret.ok
       /\ last.ret.rom.screen_mirroring =
            screen_mirroring_of(BitAnd(last.arg.byte6, 8) # 0, BitAnd(last.arg.byte6, 1) # 0)
       /\ last.ret.rom.mapper =
            BitOr(BitAnd(last.arg.byte7, 240), last.arg.byte6 \div 16)
       /\ last.ret.rom.prg_rom = Vec(last.arg.prg * PRG_ROM_PAGE_SIZE, {<<0, 170>>})

\* C24 (as claimed): Rom::new never panics; an image with a wrong tag, an
\* image whose byte 7 has one of its low two bits set, and an image cut
\* short of its header or of the PRG and CHR data its header declares, yield
\* Err.
C24_MalformedImageIsErr ==
  last.op = "Rom::new" =>
    /\ ~last.ret.panic
    /\ (\/ last.arg.tag0 # 78
        \/ BitAnd(last.arg.byte7, 3) # 0
        \/ last.arg.missing > 0) => ~last.ret.ok

\* C25 (as claimed): the execution of an opcode whose handler is nop leaves
\* PC at the address of the opcode plus the byte length of its table entry
\* and changes no other register, no flag and no memory.
C25_NopConsumesOperands ==
  [][(last'.op = "execute" /\ last'.ret >= 0 /\ OP_from(last'.arg).op = "nop") =>
       /\ ~panicked'
       /\ cpu' = [cpu EXCEPT !.pc = (cpu.pc + OP_from(last'.arg).bytes) % U16]
       /\ UNCHANGED <<cpu_ram, rom, ppu>>]_vars

\* C26 (as claimed): AXS leaves X = ((A AND X) - M) mod 256 and A unchanged,
\* Zero and Negative from the new X, and Carry set exactly when
\* (A AND X) >= M.
C26_AxsCarryNotBorrow ==
  [][(last'.op = "handler" /\ last'.arg = 203 /\ ~panicked') =>
       /\ cpu'.reg_x = (BitAnd(cpu.reg_a, cpu.reg_x) + U8 - last'.ret) % U8
       /\ cpu'.reg_a = cpu.reg_a
       /\ get_flag(cpu', Zero) = (cpu'.reg_x = 0)
       /\ get_flag(cpu', Negative) = (cpu'.reg_x >= 128)
       /\ get_flag(cpu', Carry) = (BitAnd(cpu.reg_a, cpu.reg_x) >= last'.ret)]_vars

\* The register an opcode of CMP, CPX and CPY compares
CompareRegister(c, code) ==
  IF code = 201 THEN c.reg_a ELSE IF code = 224 THEN c.reg_x ELSE c.reg_y

\* C30: CMP, CPX and CPY leave A, X, Y and the RAM unchanged and set Carry
\* exactly when the register is at least M, Zero exactly when it equals M,
\* and Negative to bit 7 of (register - M) mod 256.
C30_CompareFlags ==
  [][(last'.op = "handler" /\ last'.arg \in {201, 224, 192} /\ ~panicked') =>
       /\ <<cpu'.reg_a, cpu'.reg_x, cpu'.reg_y>> = <<cpu.reg_a, cpu.reg_x, cpu.reg_y>>
       /\ UNCHANGED cpu_ram
       /\ get_flag(cpu', Carry) = (CompareRegister(cpu, last'.arg) >= last'.ret)
       /\ get_flag(cpu', Zero) = (CompareRegister(cpu, last'.arg) = last'.ret)
       /\ get_flag(cpu', Negative) =
            (((CompareRegister(cpu, last'.arg) + U8 - last'.ret) % U8) \div 128 = 1)]_vars

\* C30 witness: CPX has compared X = 0x0F with the greater operand 0x80 of
\* wrapped difference 0x8F, leaving Carry and Zero clear and Negative set
C30_Witness ==
  /\ last.op = "handler"
  /\ last.arg = 224
  /\ last.ret = 128
  /\ cpu.reg_x = 15
  /\ ~panicked
  /\ ~get_flag(cpu, Carry)
  /\ ~get_flag(cpu, Zero)
  /\ get_flag(cpu, Negative)

\* The accumulator and flags the addition of value and the carry to the
\* accumulator of c is to leave in c2
AddedWithCarry(c, value, c2) ==
  LET sum == c.reg_a + value + (IF get_flag(c, Carry) THEN 1 ELSE 0)
  IN  /\ c2.reg_a = sum % 256
      /\ get_flag(c2, Carry) = (sum > 255)
      /\ get_flag(c2, Overflow) =
           (BitAnd(BitAnd(BitXor(value, c2.reg_a), BitXor(c.reg_a, c2.reg_a)), 128) # 0)
      /\ get_flag(c2, Zero) = (c2.reg_a = 0)
      /\ get_flag(c2, Negative) = (c2.reg_a >= 128)

\* C28: ADC leaves A' = (A + M + C) mod 256, Carry = (A + M + C > 255),
\* Overflow = (((M xor A') and (A xor A') and 0x80) != 0) for the A before
\* the addition, and Zero and Negative from A'; SBC leaves what ADC leaves
\* for the operand M xor 0xFF.
C28_AdcSbc ==
  [][/\ (last'.op = "handler" /\ last'.arg = 105 /\ ~panicked') =>
          AddedWithCarry(cpu, last'.ret, cpu')
     /\ (last'.op = "handler" /\ last'.arg = 233 /\ ~panicked') =>
          AddedWithCarry(cpu, BitXor(last'.ret, 255), cpu')]_vars

\* C28 witness: ADC has added 0x01 to 0x7F with Carry clear, leaving 0x80
\* with Overflow and Negative set and Carry clear
C28_Witness ==
  /\ last.op = "handler"
  /\ last.arg = 105
  /\ last.ret = 1
  /\ hist.adc = <<[a |-> 127, c |-> 0, sbc |-> 0]>>
  /\ cpu.reg_a = 128
  /\ get_flag(cpu, Overflow)
  /\ get_flag(cpu, Negative)
  /\ ~get_flag(cpu, Carry)
  /\ ~panicked

\* C29: an SBC M made after an ADC M, with no handler but CLC and SEC called
\* between them, leaves A = (A0 + c + c2 - 1) mod 256, for A0 and c the
\* accumulator and carry the ADC began with and c2 the carry the SBC begins
\* with; A is A0 again whenever c + c2 = 1.
C29_AdcSbcInverse ==
  [][(/\ last'.op = "handler"
      /\ last'.arg = 233
      /\ ~panicked'
      /\ hist.adc # <<>>
      /\ hist'.adc[1].sbc = 1) =>
       LET c2 == IF get_flag(cpu, Carry) THEN 1 ELSE 0
       IN  /\ cpu'.reg_a = (hist.adc[1].a + hist.adc[1].c + c2 + 255) % 256
           /\ (hist.adc[1].c + c2 = 1) => cpu'.reg_a = hist.adc[1].a]_vars

\* C29 witness: ADC 0x81 has been run from A = 0xC0 with Carry clear, then
\* SBC 0x81, with calls of CLC and SEC before or between them, and A is
\* 0xC0 again
C29_Witness ==
  /\ last.op = "handler"
  /\ last.arg = 233
  /\ last.ret = 129
  /\ hist.instructions = 4
  /\ hist.adc = <<[a |-> 192, c |-> 0, sbc |-> 1]>>
  /\ cpu.reg_a = 192
  /\ ~panicked

\* The handlers that write A, X, Y, or a result to memory
WritesA ==
  {"lda", "lax", "txa", "tya", "pla", "adc", "sbc", "and", "eor", "ora",
   "alr", "anc", "arr", "isc", "rla", "rra", "slo", "sre"}

WritesX == {"ldx", "tax", "tsx", "inx", "dex", "axs"}

WritesY == {"ldy", "tay", "iny", "dey"}

Shifts == {"asl", "lsr", "rol", "ror"}

WritesMemoryOnly == {"inc", "dec", "dcp"}

\* The address in RAM a handler of mode resolves in the current state, -1
\* when it resolves none
ResolvedRamAddress(mode) ==
  LET a == get_address(Machine(cpu, TheBus, FALSE), mode)
  IN  IF a.panic \/ a.ret > RAM_END THEN -1 ELSE a.ret

\* The handler of op writes a register
WritesRegister(op) ==
  \/ op.op \in WritesA \cup WritesX \cup WritesY
  \/ op.op \in Shifts /\ op.mode = "Accumulator"

\* The step is a call of a handler of the set ops that returned, having
\* written a register or a cell of the RAM
WroteResult(ops) ==
  /\ last'.op = "handler"
  /\ ~panicked'
  /\ OP_from(last'.arg).op \in ops
  /\ WritesRegister(OP_from(last'.arg)) \/ ResolvedRamAddress(OP_from(last'.arg).mode) >= 0

\* The byte the step wrote: the one written to A, X or Y when the handler
\* writes one of them, else the one written to memory
Result ==
  LET op == OP_from(last'.arg)
  IN  IF op.op \in WritesA \/ (op.op \in Shifts /\ op.mode = "Accumulator")
      THEN cpu'.reg_a
      ELSE IF op.op \in WritesX THEN cpu'.reg_x
      ELSE IF op.op \in WritesY THEN cpu'.reg_y
      ELSE VecGet(cpu_ram', ram_cell(ResolvedRamAddress(op.mode)))

\* Zero and Negative of the status of c are those of the byte result
ZNOf(c, result) ==
  /\ get_flag(c, Zero) = (result = 0)
  /\ get_flag(c, Negative) = (result >= 128)

\* C27 (as claimed): after every instruction that writes A, X or Y or a
\* result to memory, DCP among them, Zero is set exactly when the byte
\* written is 0 and Negative is bit 7 of it.
C27_ZeroNegativeOfResult ==
  [][WroteResult(WritesA \cup WritesX \cup WritesY \cup Shifts \cup WritesMemoryOnly)
       => ZNOf(cpu', Result)]_vars

\* C27 (amended): the same for every such instruction but DCP, the byte
\* being the one written to the register when the instruction writes a
\* register as well as memory; after DCP Zero is set exactly when A equals
\* the decremented byte and Negative is bit 7 of A less that byte.
C27_ZeroNegativeButDcp ==
  [][/\ WroteResult(WritesA \cup WritesX \cup WritesY \cup Shifts \cup {"inc", "dec"})
          => ZNOf(cpu', Result)
     /\ WroteResult({"dcp"})
          => /\ get_flag(cpu', Zero) = (cpu.reg_a = Result)
             /\ get_flag(cpu', Negative) = ((cpu.reg_a + U8 - Result) % U8 >= 128)]_vars

\* C27 witness: DEC of the zero-page cell 1 has written 0 and left Zero
\* set and Negative clear, from a status with Zero clear and Negative set
C27_Witness ==
  /\ last.op = "handler"
  /\ last.arg = 198
  /\ last.ret = 1
  /\ VecGet(cpu_ram, 1) = 0
  /\ get_flag(cpu, Zero)
  /\ ~get_flag(cpu, Negative)
  /\ ~panicked


(***************************************************************************)
(* Unofficial combined operations, interrupts return, pointers, branches.  *)
(***************************************************************************)
\* C31: ARR computes T = A AND M and sets A to T rotated right by one bit
\* through the incoming Carry; Zero and Negative come from the new A; Carry
\* and Overflow come from bits 6 and 5 of T: (1,1) Carry set and Overflow
\* clear, (1,0) Carry set and Overflow clear, (0,1) Carry clear and Overflow
\* set, (0,0) both clear.
C31_Arr ==
  [][(last'.op = "handler" /\ last'.arg = 107 /\ ~panicked') =>
       LET T == BitAnd(cpu.reg_a, last'.ret)
           bit6 == BitAnd(T, 64) # 0
           bit5 == BitAnd(T, 32) # 0
           rotated == (T \div 2) + (IF get_flag(cpu, Carry) THEN 128 ELSE 0)
       IN /\ cpu'.reg_a = rotated
          /\ get_flag(cpu', Zero) = (rotated = 0)
          /\ get_flag(cpu', Negative) = (rotated >= 128)
          /\ (bit6 /\ bit5) => (get_flag(cpu', Carry) /\ ~get_flag(cpu', Overflow))
          /\ (bit6 /\ ~bit5) => (get_flag(cpu', Carry) /\ ~get_flag(cpu', Overflow))
          /\ (~bit6 /\ bit5) => (~get_flag(cpu', Carry) /\ get_flag(cpu', Overflow))
          /\ (~bit6 /\ ~bit5) => (~get_flag(cpu', Carry) /\ ~get_flag(cpu', Overflow))]_vars

\* An ARR of $60 AND $20 with Carry set has left A = $90, Overflow set and
\* Carry clear
C31_Witness ==
  /\ last.op = "handler"
  /\ last.arg = 107
  /\ last.ret = 32
  /\ cpu.reg_a = 144
  /\ get_flag(cpu, Overflow)
  /\ ~get_flag(cpu, Carry)
  /\ get_flag(cpu, Negative)
  /\ ~panicked

\* C32: RTI pulls one byte s and sets P = (old P AND $30) OR (s AND $CF), so
\* bits 4 and 5 keep their value from before the pull; it then pulls PC, low
\* byte first and high byte second, and PC is exactly the pulled value, with
\* no 1 added; SP ends 3 higher, modulo 256.
C32_Rti ==
  [][(last'.op = "handler" /\ last'.arg = 64 /\ ~panicked') =>
       LET s  == read8(256 + ((cpu.stack + 1) % U8))
           lo == read8(256 + ((cpu.stack + 2) % U8))
           hi == read8(256 + ((cpu.stack + 3) % U8))
       IN /\ cpu'.status = BitOr(BitAnd(cpu.status, 48), BitAnd(s, 207))
          /\ cpu'.pc = (hi * 256) + lo
          /\ cpu'.stack = (cpu.stack + 3) % U8
          /\ cpu'.reg_a = cpu.reg_a /\ cpu'.reg_x = cpu.reg_x /\ cpu'.reg_y = cpu.reg_y
          /\ cpu_ram' = cpu_ram]_vars

\* An RTI from SP = $FE with P = $24 has pulled $FF from $01FF and $3456
\* from $0100 and $0101: P = $EF, PC = $3456, SP = $01
C32_Witness ==
  /\ last.op = "handler"
  /\ last.arg = 64
  /\ cpu.stack = 1
  /\ read8(511) = 255
  /\ read8(256) = 86
  /\ read8(257) = 52
  /\ cpu.status = 239
  /\ cpu.pc = 13398
  /\ ~panicked

\* The pointer held at the two zero-page cells t and (t + 1) mod 256
ZeroPagePointer(t) == (read8((t + 1) % U8) * 256) + read8(t)

\* The RAM after a write of value to addr
RamWith(addr, value) == Bus_mem_write_u8(TheBus, addr, value).obj.cpu_ram

\* C33: indirect pointer fetches never carry out of the low byte: JMP (ptr)
\* reads the low byte of its target at ptr and the high byte at
\* (ptr AND $FF00) OR ((ptr + 1) AND $FF); the Indirect_X and Indirect_Y
\* modes read the pointer's low byte at the zero-page cell t and its high
\* byte at the zero-page cell (t + 1) mod 256.
C33_PointerFetchNeverCarries ==
  [][(last'.op = "handler" /\ ~panicked') =>
       LET ptr == (read8(cpu.pc + 1) * 256) + read8(cpu.pc)
           tx  == (read8(cpu.pc) + cpu.reg_x) % U8
           ty  == read8(cpu.pc)
       IN /\ last'.arg = 108 =>
               cpu'.pc = (read8(((ptr \div 256) * 256) + ((ptr + 1) % U8)) * 256)
                         + read8(ptr)
          /\ last'.arg = 161 => cpu'.reg_a = read8(ZeroPagePointer(tx))
          /\ last'.arg = 177 =>
               cpu'.reg_a = read8((ZeroPagePointer(ty) + cpu.reg_y) % U16)
          /\ last'.arg = 129 => cpu_ram' = RamWith(ZeroPagePointer(tx), cpu.reg_a)
          /\ last'.arg = 145 =>
               cpu_ram' = RamWith((ZeroPagePointer(ty) + cpu.reg_y) % U16, cpu.reg_a)]_vars

\* STA ($80,X) with X = $7F has read its pointer at $FF and $00 and has
\* written A to $0310, not to $0410
C33_Witness ==
  /\ last.op = "handler"
  /\ last.arg = 129
  /\ last.ret = 128
  /\ cpu.reg_x = 127
  /\ cpu.reg_a = 119
  /\ read8(784) = 119
  /\ read8(1040) = 0
  /\ ~panicked

\* The flag predicate of the branch with the opcode code, on the CPU c
BranchPredicate(code, c) ==
  CASE code = 16  -> ~get_flag(c, Negative)
    [] code = 48  -> get_flag(c, Negative)
    [] code = 80  -> ~get_flag(c, Overflow)
    [] code = 112 -> get_flag(c, Overflow)
    [] code = 144 -> ~get_flag(c, Carry)
    [] code = 176 -> get_flag(c, Carry)
    [] code = 208 -> ~get_flag(c, Zero)
    [] code = 240 -> get_flag(c, Zero)

\* The operand byte o as a signed offset
Signed(o) == IF o >= 128 THEN o - U8 ELSE o

\* C34 (as claimed): each of the eight branches, run with its operand byte o
\* at the address p, ends with PC = (p + 1 + signed(o)) mod 65536 when its
\* flag predicate holds and with PC = p + 1 otherwise, and leaves P, A, X, Y
\* and SP unchanged.
C34_Branch ==
  [][(last'.op = "handler" /\ last'.arg \in BranchOpcodes) =>
       /\ ~panicked'
       /\ cpu'.pc = IF BranchPredicate(last'.arg, cpu)
                    THEN (cpu.pc + 1 + Signed(last'.ret)) % U16
                    ELSE cpu.pc + 1
       /\ cpu'.status = cpu.status
       /\ cpu'.reg_a = cpu.reg_a
       /\ cpu'.reg_x = cpu.reg_x
       /\ cpu'.reg_y = cpu.reg_y
       /\ cpu'.stack = cpu.stack]_vars

\* The same for the operands below the last address
C34_BranchBelowLastAddress ==
  [][(last'.op = "handler" /\ last'.arg \in BranchOpcodes /\ cpu.pc < U16 - 1) =>
       /\ ~panicked'
       /\ cpu'.pc = IF BranchPredicate(last'.arg, cpu)
                    THEN (cpu.pc + 1 + Signed(last'.ret)) % U16
                    ELSE cpu.pc + 1
       /\ cpu' = [cpu EXCEPT !.pc = cpu'.pc]]_vars

\* The two official operations a read-modify-write combination is made of
Constituents(op) ==
  CASE op = "dcp" -> <<"dec", "cmp">>
    [] op = "isc" -> <<"inc", "sbc">>
    [] op = "slo" -> <<"asl", "ora">>
    [] op = "rla" -> <<"rol", "and">>
    [] op = "sre" -> <<"lsr", "eor">>
    [] op = "rra" -> <<"ror", "adc">>

\* The machine after the i-th constituent of the entry has run on m with
\* the entry's mode, its operand at pc
RunConstituent(m, entry, i) ==
  execute([m EXCEPT !.cpu.pc = cpu.pc], [entry EXCEPT !.op = Constituents(entry.op)[i]])

\* The machine after the two constituents of the entry have run one after
\* the other from the current state
Sequenced(entry) ==
  RunConstituent(RunConstituent(TheMachine(TRUE), entry, 1), entry, 2)

\* The second constituent resolves the address the first has resolved
SameEffectiveAddress(entry) ==
  get_address(TheMachine(TRUE), entry.mode).ret
    = get_address([RunConstituent(TheMachine(TRUE), entry, 1) EXCEPT !.cpu.pc = cpu.pc],
                  entry.mode).ret

\* C35 (as claimed): each unofficial read-modify-write combination ends with the same
\* memory byte, the same A and the same P as its two official constituents
\* run one after the other on the same effective address: DCP as DEC then
\* CMP, ISB as INC then SBC, SLO as ASL then ORA, RLA as ROL then AND, SRE
\* as LSR then EOR, RRA as ROR then ADC.
C35_RmwAsConstituents ==
  [][(/\ last'.op = "handler"
      /\ last'.arg \in RmwOpcodes
      /\ ~panicked'
      /\ SameEffectiveAddress(OP_from(last'.arg))) =>
       /\ ~Sequenced(OP_from(last'.arg)).panic
       /\ cpu_ram' = Sequenced(OP_from(last'.arg)).bus.cpu_ram
       /\ cpu'.reg_a = Sequenced(OP_from(last'.arg)).cpu.reg_a
       /\ cpu'.status = Sequenced(OP_from(last'.arg)).cpu.status]_vars

\* The same for the effective addresses in the RAM and its mirrors, where
\* the byte written is the byte read back
C35_RmwAsConstituentsInRam ==
  [][(/\ last'.op = "handler"
      /\ last'.arg \in RmwOpcodes
      /\ ~panicked'
      /\ SameEffectiveAddress(OP_from(last'.arg))
      /\ get_address(TheMachine(TRUE), OP_from(last'.arg).mode).ret <= RAM_END) =>
       /\ ~Sequenced(OP_from(last'.arg)).panic
       /\ cpu_ram' = Sequenced(OP_from(last'.arg)).bus.cpu_ram
       /\ cpu'.reg_a = Sequenced(OP_from(last'.arg)).cpu.reg_a
       /\ cpu'.status = Sequenced(OP_from(last'.arg)).cpu.status]_vars


\* The byte a store writes
StoredByte(op) ==
  CASE op = "sta" -> cpu.reg_a
    [] op = "stx" -> cpu.reg_x
    [] op = "sty" -> cpu.reg_y
    [] op = "sax" -> BitAnd(cpu.reg_a, cpu.reg_x)

\* C36: STA, STX, STY and SAX change only the addressed memory byte and PC;
\* TXS changes only SP, which becomes X, and PC; none of them changes any
\* bit of P.
C36_StoresKeepFlags ==
  [][(last'.op = "handler" /\ ~panicked') =>
       /\ OP_from(last'.arg).op \in {"sta", "stx", "sty", "sax"} =>
            /\ cpu' = [cpu EXCEPT !.pc = cpu'.pc]
            /\ cpu_ram' = RamWith(get_address(TheMachine(TRUE), OP_from(last'.arg).mode).ret,
                                  StoredByte(OP_from(last'.arg).op))
            /\ rom' = rom
            /\ ppu' = ppu
       /\ OP_from(last'.arg).op = "txs" =>
            /\ cpu' = [cpu EXCEPT !.stack = cpu.reg_x, !.pc = cpu'.pc]
            /\ cpu_ram' = cpu_ram
            /\ rom' = rom
            /\ ppu' = ppu]_vars

\* A TXS with X = $81 has left SP = $81 and the status of before, Negative
\* clear
C36_Witness ==
  /\ last.op = "handler"
  /\ last.arg = 154
  /\ cpu.reg_x = 129
  /\ cpu.stack = 129
  /\ cpu.status = 36
  /\ ~panicked

\* C37: BRK sets bit 4 of P and changes nothing else: the other bits of P,
\* A, X, Y, SP and the memory are unchanged, nothing is pushed and no vector
\* is loaded; PC stays just past the BRK opcode byte.
C37_BrkOnlySetsBreak ==
  [][(last'.op = "execute" /\ last'.arg = 0 /\ ~panicked') =>
       /\ cpu' = [cpu EXCEPT !.status = BitOr(cpu.status, 16), !.pc = cpu.pc + 1]
       /\ cpu_ram' = cpu_ram
       /\ rom' = rom
       /\ ppu' = ppu]_vars

\* The program PHA, BRK has run: the BRK at 1 has left PC = 2, the stack
\* pointer where the PHA left it and Break set
C37_Witness ==
  /\ last.op = "execute"
  /\ last.arg = 0
  /\ read8(0) = 72
  /\ cpu.pc = 2
  /\ cpu.stack = INIT_STACK_POINTER - 1
  /\ cpu.status = 52
  /\ loc = "idle"
  /\ ~panicked

\* C38 (as claimed): from reset onward bit 5 of P is 1 after every executed
\* instruction, PLP and RTI included when the byte they pull has bit 5
\* clear.
C38_Bit5AlwaysSet ==
  [][(last'.op = "execute" /\ ~panicked') => BitAnd(cpu'.status, 32) # 0]_vars

\* Every executed instruction other than PLP, RTI included, leaves bit 5 of
\* P as it was
C38_Bit5KeptButByPlp ==
  [][(last'.op = "execute" /\ last'.arg # 40 /\ ~panicked') =>
       BitAnd(cpu'.status, 32) = BitAnd(cpu.status, 32)]_vars

\* The address PPUDATA is accessed at is in the nametable range $2000-$2FFF
AtNametable(p) ==
  PPUADDRESS_get(p.ppu_addr) >= 8192 /\ PPUADDRESS_get(p.ppu_addr) <= 12287

\* C39 (as claimed): every PPUDATA read or write whose address is in
\* $2000-$2FFF indexes the 2048-byte VRAM below 2048 and so completes, for
\* every mirroring a parsed image can carry: Horizontal, Vertical and
\* FourScreen.
C39_VramIndexInBounds ==
  [][(last'.op \in {"write_to_data", "read_data"} /\ AtNametable(ppu)) =>
       /\ mirror_vram_addr(ppu, PPUADDRESS_get(ppu.ppu_addr)) < ppu.vram.len
       /\ ~panicked']_vars

\* The same for the Horizontal and Vertical mirrorings
C39_VramIndexInBoundsTwoScreen ==
  [][(/\ last'.op \in {"write_to_data", "read_data"}
      /\ AtNametable(ppu)
      /\ ppu.mirroring \in {Horizontal, Vertical}) =>
       /\ mirror_vram_addr(ppu, PPUADDRESS_get(ppu.ppu_addr)) < ppu.vram.len
       /\ ~panicked']_vars

\* The handlers that set PC themselves or, as nop, resolve no operand
SetsPcOrNop == {"nop", "jmp", "jsr", "rts", "rti"}

\* The execution of the opcode byte code from the CPU c is a taken branch
TakenBranch(code, c) == code \in BranchOpcodes /\ BranchPredicate(code, c)

\* C40: for every populated opcode other than the NOP family, JMP, JSR, RTS,
\* RTI and the taken branches, executing the instruction at p leaves
\* PC = p + bytes, the byte length of its table entry; and no entry pairs a
\* handler that resolves an address with the Accumulator, Relative or
\* NoneAddressing mode, so the execution of a populated opcode never ends in
\* the panic of get_address.
C40_PcAdvancesByLength ==
  [][(last'.op = "execute" /\ last'.arg \in PopulatedOpcodes) =>
       /\ ~panicked'
       /\ (OP_from(last'.arg).op \notin SetsPcOrNop /\ ~TakenBranch(last'.arg, cpu)) =>
            cpu'.pc = cpu.pc + OP_from(last'.arg).bytes]_vars

\* LDA $0000,X, three bytes at 0, has run and has left PC = 3
C40_Witness ==
  /\ last.op = "execute"
  /\ last.arg = 189
  /\ read8(0) = 189
  /\ cpu.pc = 3
  /\ ~panicked
=========================================================================
